---------------------------- MODULE Spec2Model ----------------------------
(***************************************************************************)
(* State-machine model of the AdapterManager of src/adapter-manager.js:    *)
(* the adapter and device registries, the two pairing sessions             *)
(* (deferredAdd / deferredRemove), the futures handed to callers, and the  *)
(* ordered effects (stores, events, adapter calls, settlements) of each    *)
(* handler call.                                                           *)
(***************************************************************************)
EXTENDS Integers, Sequences, FiniteSets, TLC

(***************************************************************************)
(* Bounds.                                                                 *)
(***************************************************************************)
\* adapter objects 1..NumAdapters; the last one is constructed with the id of
\* the first, the others with ids of their own
NumAdapters == 3
\* device objects 1..NumDevices, each with an id of its own
NumDevices == 2
\* Deferred objects constructed in one run
MaxDeferreds == 2

AdapterObjs == 1..NumAdapters
DeviceObjs == 1..NumDevices
DeviceIds == 1..NumDevices

\* adapter.id of an adapter object
AdapterIdOf(a) == IF a = NumAdapters THEN 1 ELSE a
\* device.id of a device object
DeviceIdOf(d) == d
\* device.adapter: the adapter object that owns the device
DeviceAdapterOf(d) == ((d - 1) % NumAdapters) + 1

(***************************************************************************)
(* Values a future settles with.                                           *)
(***************************************************************************)
NoValue == [tag |-> "none", dev |-> 0, reason |-> ""]
Reason(s) == [tag |-> "reason", dev |-> 0, reason |-> s]
\* device.getThing(): the thing that describes device d
getThing(d) == [tag |-> "thing", dev |-> d, reason |-> ""]

(***************************************************************************)
(* Deferred: a promise with its resolve and reject functions.  A promise   *)
(* settles on the first resolve/reject; later ones are ignored.  settles   *)
(* counts the resolve/reject calls made on it.                             *)
(***************************************************************************)
NewDeferred == [state |-> "pending", value |-> NoValue, settles |-> 0]

DeferredResolve(df, v) ==
  [state |-> IF df.state = "pending" THEN "resolved" ELSE df.state,
   value |-> IF df.state = "pending" THEN v ELSE df.value,
   settles |-> df.settles + 1]

DeferredReject(df, r) ==
  [state |-> IF df.state = "pending" THEN "rejected" ELSE df.state,
   value |-> IF df.state = "pending" THEN Reason(r) ELSE df.value,
   settles |-> df.settles + 1]

(***************************************************************************)
(* this.adapters, a JavaScript object used as a dictionary and walked with *)
(* for-in: entries in insertion order, an assignment to an existing key    *)
(* keeps the key's position.                                               *)
(***************************************************************************)
KeyIndex(dict, id) ==
  IF \E i \in 1..Len(dict) : dict[i].id = id
  THEN CHOOSE i \in 1..Len(dict) : dict[i].id = id
  ELSE 0

DictPut(dict, id, obj) ==
  IF KeyIndex(dict, id) # 0
  THEN [dict EXCEPT ![KeyIndex(dict, id)] = [id |-> id, obj |-> obj]]
  ELSE Append(dict, [id |-> id, obj |-> obj])

DictGet(dict, id) ==
  IF KeyIndex(dict, id) # 0 THEN dict[KeyIndex(dict, id)].obj ELSE 0

DictObjs(dict) == {dict[i].obj : i \in 1..Len(dict)}
DictKeys(dict) == {dict[i].id : i \in 1..Len(dict)}

(***************************************************************************)
(* Effects of a handler call, in the order the handler performs them.      *)
(*   k = "new"     Deferred n constructed                                  *)
(*   k = "store"   registry entry written   (name: registry, a: object)    *)
(*   k = "delete"  registry entry deleted   (name: registry, a: object)    *)
(*   k = "emit"    event published          (name: event, a: payload)      *)
(*   k = "call"    adapter method called    (name: method, a: adapter)     *)
(*   k = "set"     session field assigned   (name: field, n: Deferred)     *)
(*   k = "resolve" / "reject"  Deferred n settled (a: device of the thing) *)
(***************************************************************************)
Eff(k, name, a, n) == [k |-> k, name |-> name, a |-> a, n |-> n]

\* the loop left after its first iteration
CallEach_firstOnly(dict, method, skip) ==
  LET all == [i \in 1..Len(dict) |-> Eff("call", method, dict[i].obj, 0)]
      sel == SelectSeq(all, LAMBDA e : e.a # skip)
  IN IF sel = <<>> THEN sel ELSE <<sel[1]>>

\* the loop without its test adapter !== device.adapter
CallEach_noSkip(dict, method, skip) ==
  [i \in 1..Len(dict) |-> Eff("call", method, dict[i].obj, 0)]

\* for (var adapterId in this.adapters) { adapter.<method>() }, skipping
\* the adapter object skip (0: skip none)
CallEach(dict, method, skip) ==
  LET all == [i \in 1..Len(dict) |-> Eff("call", method, dict[i].obj, 0)]
  IN SelectSeq(all, LAMBDA e : e.a # skip)

VARIABLES
  adapters,        \* this.adapters: dictionary adapter.id -> adapter
  devices,         \* this.devices: device.id -> device, 0 where there is no entry
  deferredAdd,     \* this.deferredAdd: 0 (null) or a Deferred
  deferredRemove,  \* this.deferredRemove: 0 (null) or a Deferred
  deferreds,       \* every Deferred constructed so far
  lastOp,          \* the last handler call: name, argument, returned promise
  log,             \* the effects of the last handler call, in order
  zw,              \* the ZWaveAdapter of src/adapters/zwave/zwave-adapter.js
  plug,            \* the SmartPlug of src/unnamed/part_001
  fanout           \* history: the adapter objects the active session was started on

vars ==
  <<adapters, devices, deferredAdd, deferredRemove, deferreds, lastOp, log, zw, plug, fanout>>

(***************************************************************************)
(* The ZWaveAdapter.  Z-Wave node n is device object n; the adapter is an  *)
(* adapter object of its own.                                              *)
(*   constructed      new ZWaveAdapter(adapterManager, port) has run       *)
(*   id               this.id                                              *)
(*   connected        this.zwave is connected to the port                  *)
(*   nodes            the keys of this.nodes                               *)
(*   named            the nodes of this.nodes with node.named true         *)
(*   nodesBeingAdded  the keys of this.nodesBeingAdded                     *)
(*   mode             the controller command in progress: "add" after      *)
(*                    addNode(), "remove" after removeNode(), "none" after *)
(*                    cancelControllerCommand()                            *)
(*   cmds             the controller commands of the last handler call     *)
(***************************************************************************)
\* the id '???' the constructor passes to Adapter
ProvisionalId == 0
ZWaveAdapterObj == NumAdapters + 1
NodeIds == DeviceIds
\* the home ids a driver ready notification can carry
HomeIds == {1}
\* 'zwave-' + homeId.toString(16)
ZWaveIdOf(h) == NumAdapters + h

(***************************************************************************)
(* The SmartPlug, the consumer of the 'on' and 'instantaneousPower'        *)
(* properties of a thing.                                                  *)
(*   constructed  new SmartPlug(description, format) has run               *)
(*   on           this.properties.on: "undefined", "null", "true", "false" *)
(*   power        this.properties.power: NoPower (undefined) or a number   *)
(*   shown        the class of this.element: "on", "off", or "none" when   *)
(*                it has neither                                           *)
(*   label        the text of this.powerLabel: LabelOff for 'OFF', n for   *)
(*                n + 'W'                                                  *)
(*   pending      the requests made with fetch() that have not responded,  *)
(*                counted by kind                                          *)
(* and, as history of its writes,                                          *)
(*   lastWrite    the value of the last write issued: "none", "true",      *)
(*                "false"                                                  *)
(*   clean        no write has failed since a write was last issued with   *)
(*                no other write outstanding                               *)
(***************************************************************************)
\* the highest reading of instantaneousPower
MaxPower == 1
\* the most requests outstanding at a time
MaxRequests == 3
\* this.properties.power before any reading: undefined
NoPower == -1
\* the label 'OFF'
LabelOff == -1
PowerValues == 0..MaxPower
\* response.status of a success
StatusOK == 200
\* the statuses a response to a PUT can carry
Statuses == {StatusOK, 404, 500}
Requests == {"GET on", "GET power", "PUT true", "PUT false"}

SmartPlugInit ==
  [constructed |-> FALSE, on |-> "undefined", power |-> NoPower, shown |-> "none",
   label |-> 0, pending |-> [r \in Requests |-> 0], lastWrite |-> "none", clean |-> TRUE]

ZWaveInit ==
  [constructed |-> FALSE, id |-> ProvisionalId, connected |-> FALSE, nodes |-> {},
   named |-> {}, nodesBeingAdded |-> {}, mode |-> "none", cmds |-> <<>>]

Op(op, arg, ret) == [op |-> op, arg |-> arg, ret |-> ret]

\* constructor()
Init ==
  /\ adapters = <<>>
  /\ devices = [id \in DeviceIds |-> 0]
  /\ deferredAdd = 0
  /\ deferredRemove = 0
  /\ deferreds = <<>>
  /\ lastOp = Op("constructor", 0, 0)
  /\ log = <<>>
  /\ zw = ZWaveInit
  /\ plug = SmartPlugInit
  /\ fanout = {}

\* addAdapter(adapter) emitting adapter-added before it stores the adapter
addAdapter_emitFirst(a) ==
  /\ adapters' = DictPut(adapters, AdapterIdOf(a), a)
  /\ log' = <<Eff("emit", "adapter-added", a, 0), Eff("store", "adapters", a, 0)>>
  /\ lastOp' = Op("addAdapter", a, 0)
  /\ UNCHANGED <<devices, deferredAdd, deferredRemove, deferreds>>

\* addAdapter(adapter)
addAdapter(a) ==
  /\ adapters' = DictPut(adapters, AdapterIdOf(a), a)
  /\ log' = <<Eff("store", "adapters", a, 0), Eff("emit", "adapter-added", a, 0)>>
  /\ lastOp' = Op("addAdapter", a, 0)
  /\ UNCHANGED <<devices, deferredAdd, deferredRemove, deferreds>>

\* addNewThing() without the test of this.deferredRemove
addNewThing_noRemoveCheck ==
  /\ Len(deferreds) < MaxDeferreds
  /\ LET n == Len(deferreds) + 1 IN
       /\ lastOp' = Op("addNewThing", 0, n)
       /\ IF deferredAdd # 0 THEN
            /\ deferreds' = Append(deferreds, DeferredReject(NewDeferred, "Add already in progress"))
            /\ log' = <<Eff("new", "", 0, n), Eff("reject", "", 0, n)>>
            /\ UNCHANGED <<deferredAdd, deferredRemove>>
          ELSE
            /\ deferreds' = Append(deferreds, NewDeferred)
            /\ deferredAdd' = n
            /\ log' = <<Eff("new", "", 0, n), Eff("set", "deferredAdd", 0, n)>>
                        \o CallEach(adapters, "startPairing", 0)
            /\ UNCHANGED deferredRemove
  /\ UNCHANGED <<adapters, devices>>

\* addNewThing() assigning this.deferredAdd before the tests
addNewThing_assignFirst ==
  /\ Len(deferreds) < MaxDeferreds
  /\ LET n == Len(deferreds) + 1 IN
       /\ lastOp' = Op("addNewThing", 0, n)
       /\ deferredAdd' = n
       /\ IF deferredAdd # 0 THEN
            /\ deferreds' = Append(deferreds, DeferredReject(NewDeferred, "Add already in progress"))
            /\ log' = <<Eff("new", "", 0, n), Eff("set", "deferredAdd", 0, n), Eff("reject", "", 0, n)>>
          ELSE IF deferredRemove # 0 THEN
            /\ deferreds' = Append(deferreds, DeferredReject(NewDeferred, "Remove already in progress"))
            /\ log' = <<Eff("new", "", 0, n), Eff("set", "deferredAdd", 0, n), Eff("reject", "", 0, n)>>
          ELSE
            /\ deferreds' = Append(deferreds, NewDeferred)
            /\ log' = <<Eff("new", "", 0, n), Eff("set", "deferredAdd", 0, n)>>
                        \o CallEach(adapters, "startPairing", 0)
  /\ UNCHANGED <<adapters, devices, deferredRemove>>

\* addNewThing()
addNewThing ==
  /\ Len(deferreds) < MaxDeferreds
  /\ LET n == Len(deferreds) + 1 IN
       /\ lastOp' = Op("addNewThing", 0, n)
       /\ IF deferredAdd # 0 THEN
            /\ deferreds' = Append(deferreds, DeferredReject(NewDeferred, "Add already in progress"))
            /\ log' = <<Eff("new", "", 0, n), Eff("reject", "", 0, n)>>
            /\ UNCHANGED <<deferredAdd, deferredRemove>>
          ELSE IF deferredRemove # 0 THEN
            /\ deferreds' = Append(deferreds, DeferredReject(NewDeferred, "Remove already in progress"))
            /\ log' = <<Eff("new", "", 0, n), Eff("reject", "", 0, n)>>
            /\ UNCHANGED <<deferredAdd, deferredRemove>>
          ELSE
            /\ deferreds' = Append(deferreds, NewDeferred)
            /\ deferredAdd' = n
            /\ log' = <<Eff("new", "", 0, n), Eff("set", "deferredAdd", 0, n)>>
                        \o CallEach(adapters, "startPairing", 0)
            /\ UNCHANGED deferredRemove
  /\ UNCHANGED <<adapters, devices>>

\* cancelAddNewThing() without this.deferredAdd = null
cancelAddNewThing_keepSession ==
  /\ lastOp' = Op("cancelAddNewThing", 0, 0)
  /\ IF deferredAdd # 0 THEN
       /\ log' = CallEach(adapters, "cancelPairing", 0)
                   \o <<Eff("reject", "", 0, deferredAdd)>>
       /\ deferreds' = [deferreds EXCEPT ![deferredAdd] = DeferredReject(@, "addNewThing cancelled")]
     ELSE
       /\ log' = <<>>
       /\ UNCHANGED deferreds
  /\ UNCHANGED <<adapters, devices, deferredAdd, deferredRemove>>

\* cancelAddNewThing()
cancelAddNewThing ==
  /\ lastOp' = Op("cancelAddNewThing", 0, 0)
  /\ IF deferredAdd # 0 THEN
       /\ log' = CallEach(adapters, "cancelPairing", 0)
                   \o <<Eff("set", "deferredAdd", 0, 0), Eff("reject", "", 0, deferredAdd)>>
       /\ deferredAdd' = 0
       /\ deferreds' = [deferreds EXCEPT ![deferredAdd] = DeferredReject(@, "addNewThing cancelled")]
     ELSE
       /\ log' = <<>>
       /\ UNCHANGED <<deferredAdd, deferreds>>
  /\ UNCHANGED <<adapters, devices, deferredRemove>>

\* cancelRemoveSomeThing() that also sets this.deferredAdd = null
cancelRemoveSomeThing_clearsAdd ==
  /\ lastOp' = Op("cancelRemoveSomeThing", 0, 0)
  /\ deferredAdd' = 0
  /\ IF deferredRemove # 0 THEN
       /\ log' = CallEach(adapters, "cancelUnpairing", 0)
                   \o <<Eff("set", "deferredRemove", 0, 0), Eff("reject", "", 0, deferredRemove)>>
       /\ deferredRemove' = 0
       /\ deferreds' = [deferreds EXCEPT ![deferredRemove] = DeferredReject(@, "removeSomeThing cancelled")]
     ELSE
       /\ log' = <<>>
       /\ UNCHANGED <<deferredRemove, deferreds>>
  /\ UNCHANGED <<adapters, devices>>

\* cancelRemoveSomeThing() with the loop outside the test if (deferredRemove)
cancelRemoveSomeThing_noGuard ==
  /\ lastOp' = Op("cancelRemoveSomeThing", 0, 0)
  /\ IF deferredRemove # 0 THEN
       /\ log' = CallEach(adapters, "cancelUnpairing", 0)
                   \o <<Eff("set", "deferredRemove", 0, 0), Eff("reject", "", 0, deferredRemove)>>
       /\ deferredRemove' = 0
       /\ deferreds' = [deferreds EXCEPT ![deferredRemove] = DeferredReject(@, "removeSomeThing cancelled")]
     ELSE
       /\ log' = CallEach(adapters, "cancelUnpairing", 0)
       /\ UNCHANGED <<deferredRemove, deferreds>>
  /\ UNCHANGED <<adapters, devices, deferredAdd>>

\* cancelRemoveSomeThing()
cancelRemoveSomeThing ==
  /\ lastOp' = Op("cancelRemoveSomeThing", 0, 0)
  /\ IF deferredRemove # 0 THEN
       /\ log' = CallEach(adapters, "cancelUnpairing", 0)
                   \o <<Eff("set", "deferredRemove", 0, 0), Eff("reject", "", 0, deferredRemove)>>
       /\ deferredRemove' = 0
       /\ deferreds' = [deferreds EXCEPT ![deferredRemove] = DeferredReject(@, "removeSomeThing cancelled")]
     ELSE
       /\ log' = <<>>
       /\ UNCHANGED <<deferredRemove, deferreds>>
  /\ UNCHANGED <<adapters, devices, deferredAdd>>

\* handleDeviceAdded(device) resolving the session before it emits thing-added
handleDeviceAdded_resolveFirst(d) ==
  /\ lastOp' = Op("handleDeviceAdded", d, 0)
  /\ devices' = [devices EXCEPT ![DeviceIdOf(d)] = d]
  /\ IF deferredAdd # 0 THEN
       /\ log' = <<Eff("store", "devices", d, 0), Eff("set", "deferredAdd", 0, 0)>>
                   \o CallEach(adapters, "cancelPairing", DeviceAdapterOf(d))
                   \o <<Eff("resolve", "", d, deferredAdd), Eff("emit", "thing-added", d, 0)>>
       /\ deferredAdd' = 0
       /\ deferreds' = [deferreds EXCEPT ![deferredAdd] = DeferredResolve(@, getThing(d))]
     ELSE
       /\ log' = <<Eff("store", "devices", d, 0), Eff("emit", "thing-added", d, 0)>>
       /\ UNCHANGED <<deferredAdd, deferreds>>
  /\ UNCHANGED <<adapters, deferredRemove>>

\* handleDeviceAdded(device) without this.deferredAdd = null
handleDeviceAdded_keepSession(d) ==
  /\ lastOp' = Op("handleDeviceAdded", d, 0)
  /\ devices' = [devices EXCEPT ![DeviceIdOf(d)] = d]
  /\ IF deferredAdd # 0 THEN
       /\ log' = <<Eff("store", "devices", d, 0), Eff("emit", "thing-added", d, 0)>>
                   \o CallEach(adapters, "cancelPairing", DeviceAdapterOf(d))
                   \o <<Eff("resolve", "", d, deferredAdd)>>
       /\ deferreds' = [deferreds EXCEPT ![deferredAdd] = DeferredResolve(@, getThing(d))]
     ELSE
       /\ log' = <<Eff("store", "devices", d, 0), Eff("emit", "thing-added", d, 0)>>
       /\ UNCHANGED deferreds
  /\ UNCHANGED <<adapters, deferredAdd, deferredRemove>>

\* handleDeviceAdded(device) ending the session of either kind
handleDeviceAdded_anySession(d) ==
  /\ lastOp' = Op("handleDeviceAdded", d, 0)
  /\ devices' = [devices EXCEPT ![DeviceIdOf(d)] = d]
  /\ IF deferredAdd # 0 THEN
       /\ log' = <<Eff("store", "devices", d, 0), Eff("emit", "thing-added", d, 0),
                   Eff("set", "deferredAdd", 0, 0)>>
                   \o CallEach(adapters, "cancelPairing", DeviceAdapterOf(d))
                   \o <<Eff("resolve", "", d, deferredAdd)>>
       /\ deferredAdd' = 0
       /\ deferreds' = [deferreds EXCEPT ![deferredAdd] = DeferredResolve(@, getThing(d))]
       /\ UNCHANGED deferredRemove
     ELSE IF deferredRemove # 0 THEN
       /\ log' = <<Eff("store", "devices", d, 0), Eff("emit", "thing-added", d, 0),
                   Eff("set", "deferredRemove", 0, 0)>>
                   \o CallEach(adapters, "cancelUnpairing", DeviceAdapterOf(d))
                   \o <<Eff("resolve", "", d, deferredRemove)>>
       /\ deferredRemove' = 0
       /\ deferreds' = [deferreds EXCEPT ![deferredRemove] = DeferredResolve(@, getThing(d))]
       /\ UNCHANGED deferredAdd
     ELSE
       /\ log' = <<Eff("store", "devices", d, 0), Eff("emit", "thing-added", d, 0)>>
       /\ UNCHANGED <<deferredAdd, deferredRemove, deferreds>>
  /\ UNCHANGED adapters

\* handleDeviceAdded(device)
handleDeviceAdded(d) ==
  /\ lastOp' = Op("handleDeviceAdded", d, 0)
  /\ devices' = [devices EXCEPT ![DeviceIdOf(d)] = d]
  /\ IF deferredAdd # 0 THEN
       /\ log' = <<Eff("store", "devices", d, 0), Eff("emit", "thing-added", d, 0),
                   Eff("set", "deferredAdd", 0, 0)>>
                   \o CallEach(adapters, "cancelPairing", DeviceAdapterOf(d))
                   \o <<Eff("resolve", "", d, deferredAdd)>>
       /\ deferredAdd' = 0
       /\ deferreds' = [deferreds EXCEPT ![deferredAdd] = DeferredResolve(@, getThing(d))]
     ELSE
       /\ log' = <<Eff("store", "devices", d, 0), Eff("emit", "thing-added", d, 0)>>
       /\ UNCHANGED <<deferredAdd, deferreds>>
  /\ UNCHANGED <<adapters, deferredRemove>>

\* handleDeviceRemoved(device) emitting thing-removed before the delete
handleDeviceRemoved_emitFirst(d) ==
  /\ lastOp' = Op("handleDeviceRemoved", d, 0)
  /\ devices' = [devices EXCEPT ![DeviceIdOf(d)] = 0]
  /\ IF deferredRemove # 0 THEN
       /\ log' = <<Eff("emit", "thing-removed", d, 0), Eff("delete", "devices", d, 0),
                   Eff("set", "deferredRemove", 0, 0)>>
                   \o CallEach(adapters, "cancelUnpairing", DeviceAdapterOf(d))
                   \o <<Eff("resolve", "", d, deferredRemove)>>
       /\ deferredRemove' = 0
       /\ deferreds' = [deferreds EXCEPT ![deferredRemove] = DeferredResolve(@, getThing(d))]
     ELSE
       /\ log' = <<Eff("emit", "thing-removed", d, 0), Eff("delete", "devices", d, 0)>>
       /\ UNCHANGED <<deferredRemove, deferreds>>
  /\ UNCHANGED <<adapters, deferredAdd>>

\* handleDeviceRemoved(device) calling cancelPairing() for cancelUnpairing()
handleDeviceRemoved_cancelPairing(d) ==
  /\ lastOp' = Op("handleDeviceRemoved", d, 0)
  /\ devices' = [devices EXCEPT ![DeviceIdOf(d)] = 0]
  /\ IF deferredRemove # 0 THEN
       /\ log' = <<Eff("delete", "devices", d, 0), Eff("emit", "thing-removed", d, 0),
                   Eff("set", "deferredRemove", 0, 0)>>
                   \o CallEach(adapters, "cancelPairing", DeviceAdapterOf(d))
                   \o <<Eff("resolve", "", d, deferredRemove)>>
       /\ deferredRemove' = 0
       /\ deferreds' = [deferreds EXCEPT ![deferredRemove] = DeferredResolve(@, getThing(d))]
     ELSE
       /\ log' = <<Eff("delete", "devices", d, 0), Eff("emit", "thing-removed", d, 0)>>
       /\ UNCHANGED <<deferredRemove, deferreds>>
  /\ UNCHANGED <<adapters, deferredAdd>>

\* handleDeviceRemoved(device) without the delete
handleDeviceRemoved_keepsDevice(d) ==
  /\ lastOp' = Op("handleDeviceRemoved", d, 0)
  /\ IF deferredRemove # 0 THEN
       /\ log' = <<Eff("emit", "thing-removed", d, 0), Eff("set", "deferredRemove", 0, 0)>>
                   \o CallEach(adapters, "cancelUnpairing", DeviceAdapterOf(d))
                   \o <<Eff("resolve", "", d, deferredRemove)>>
       /\ deferredRemove' = 0
       /\ deferreds' = [deferreds EXCEPT ![deferredRemove] = DeferredResolve(@, getThing(d))]
     ELSE
       /\ log' = <<Eff("emit", "thing-removed", d, 0)>>
       /\ UNCHANGED <<deferredRemove, deferreds>>
  /\ UNCHANGED <<adapters, devices, deferredAdd>>

\* handleDeviceRemoved(device)
handleDeviceRemoved(d) ==
  /\ lastOp' = Op("handleDeviceRemoved", d, 0)
  /\ devices' = [devices EXCEPT ![DeviceIdOf(d)] = 0]
  /\ IF deferredRemove # 0 THEN
       /\ log' = <<Eff("delete", "devices", d, 0), Eff("emit", "thing-removed", d, 0),
                   Eff("set", "deferredRemove", 0, 0)>>
                   \o CallEach(adapters, "cancelUnpairing", DeviceAdapterOf(d))
                   \o <<Eff("resolve", "", d, deferredRemove)>>
       /\ deferredRemove' = 0
       /\ deferreds' = [deferreds EXCEPT ![deferredRemove] = DeferredResolve(@, getThing(d))]
     ELSE
       /\ log' = <<Eff("delete", "devices", d, 0), Eff("emit", "thing-removed", d, 0)>>
       /\ UNCHANGED <<deferredRemove, deferreds>>
  /\ UNCHANGED <<adapters, deferredAdd>>

\* removeSomeThing() without the test of this.deferredAdd
removeSomeThing_noAddCheck ==
  /\ Len(deferreds) < MaxDeferreds
  /\ LET n == Len(deferreds) + 1 IN
       /\ lastOp' = Op("removeSomeThing", 0, n)
       /\ IF deferredRemove # 0 THEN
            /\ deferreds' = Append(deferreds, DeferredReject(NewDeferred, "Remove already in progress"))
            /\ log' = <<Eff("new", "", 0, n), Eff("reject", "", 0, n)>>
            /\ UNCHANGED <<deferredAdd, deferredRemove>>
          ELSE
            /\ deferreds' = Append(deferreds, NewDeferred)
            /\ deferredRemove' = n
            /\ log' = <<Eff("new", "", 0, n), Eff("set", "deferredRemove", 0, n)>>
                        \o CallEach(adapters, "startUnpairing", 0)
            /\ UNCHANGED deferredAdd
  /\ UNCHANGED <<adapters, devices>>

\* removeSomeThing() with the two reason strings exchanged
removeSomeThing_swappedReasons ==
  /\ Len(deferreds) < MaxDeferreds
  /\ LET n == Len(deferreds) + 1 IN
       /\ lastOp' = Op("removeSomeThing", 0, n)
       /\ IF deferredAdd # 0 THEN
            /\ deferreds' = Append(deferreds, DeferredReject(NewDeferred, "Remove already in progress"))
            /\ log' = <<Eff("new", "", 0, n), Eff("reject", "", 0, n)>>
            /\ UNCHANGED <<deferredAdd, deferredRemove>>
          ELSE IF deferredRemove # 0 THEN
            /\ deferreds' = Append(deferreds, DeferredReject(NewDeferred, "Add already in progress"))
            /\ log' = <<Eff("new", "", 0, n), Eff("reject", "", 0, n)>>
            /\ UNCHANGED <<deferredAdd, deferredRemove>>
          ELSE
            /\ deferreds' = Append(deferreds, NewDeferred)
            /\ deferredRemove' = n
            /\ log' = <<Eff("new", "", 0, n), Eff("set", "deferredRemove", 0, n)>>
                        \o CallEach(adapters, "startUnpairing", 0)
            /\ UNCHANGED deferredAdd
  /\ UNCHANGED <<adapters, devices>>

\* removeSomeThing()
removeSomeThing ==
  /\ Len(deferreds) < MaxDeferreds
  /\ LET n == Len(deferreds) + 1 IN
       /\ lastOp' = Op("removeSomeThing", 0, n)
       /\ IF deferredAdd # 0 THEN
            /\ deferreds' = Append(deferreds, DeferredReject(NewDeferred, "Add already in progress"))
            /\ log' = <<Eff("new", "", 0, n), Eff("reject", "", 0, n)>>
            /\ UNCHANGED <<deferredAdd, deferredRemove>>
          ELSE IF deferredRemove # 0 THEN
            /\ deferreds' = Append(deferreds, DeferredReject(NewDeferred, "Remove already in progress"))
            /\ log' = <<Eff("new", "", 0, n), Eff("reject", "", 0, n)>>
            /\ UNCHANGED <<deferredAdd, deferredRemove>>
          ELSE
            /\ deferreds' = Append(deferreds, NewDeferred)
            /\ deferredRemove' = n
            /\ log' = <<Eff("new", "", 0, n), Eff("set", "deferredRemove", 0, n)>>
                        \o CallEach(adapters, "startUnpairing", 0)
            /\ UNCHANGED deferredAdd
  /\ UNCHANGED <<adapters, devices>>

\* the manager and adapters that only report devices; no ZWaveAdapter is loaded
Next ==
  \/ \E a \in AdapterObjs : addAdapter(a) /\ UNCHANGED <<zw, plug, fanout>>
  \/ addNewThing /\ UNCHANGED <<zw, plug, fanout>>
  \/ cancelAddNewThing /\ UNCHANGED <<zw, plug, fanout>>
  \/ cancelRemoveSomeThing /\ UNCHANGED <<zw, plug, fanout>>
  \/ \E d \in DeviceObjs : handleDeviceAdded(d) /\ UNCHANGED <<zw, plug, fanout>>
  \/ \E d \in DeviceObjs : handleDeviceRemoved(d) /\ UNCHANGED <<zw, plug, fanout>>
  \/ removeSomeThing /\ UNCHANGED <<zw, plug, fanout>>

Spec == Init /\ [][Next]_vars

(***************************************************************************)
(* The manager's handlers as functions of the manager's state, for the     *)
(* places where one handler call runs inside another: a listener that the  *)
(* emit of 'thing-added' calls synchronously, and an adapter's callback    *)
(* that reports several devices in one call.  m holds the manager's fields *)
(* and the effects so far.                                                 *)
(***************************************************************************)
Mgr ==
  [adapters |-> adapters, devices |-> devices, deferredAdd |-> deferredAdd,
   deferredRemove |-> deferredRemove, deferreds |-> deferreds, log |-> <<>>]

\* addAdapter(adapter), adapter.id being id
addAdapterIn(m, a, id) ==
  [m EXCEPT !.adapters = DictPut(@, id, a),
            !.log = @ \o <<Eff("store", "adapters", a, 0), Eff("emit", "adapter-added", a, 0)>>]

\* addNewThing() and removeSomeThing(): field is the session field the
\* handler sets, method the adapter method it calls
requestIn(m, field, method) ==
  LET n == Len(m.deferreds) + 1 IN
    IF m.deferredAdd # 0 THEN
      [m EXCEPT !.deferreds = Append(@, DeferredReject(NewDeferred, "Add already in progress")),
                !.log = @ \o <<Eff("new", "", 0, n), Eff("reject", "", 0, n)>>]
    ELSE IF m.deferredRemove # 0 THEN
      [m EXCEPT !.deferreds = Append(@, DeferredReject(NewDeferred, "Remove already in progress")),
                !.log = @ \o <<Eff("new", "", 0, n), Eff("reject", "", 0, n)>>]
    ELSE
      [m EXCEPT !.deferreds = Append(@, NewDeferred),
                ![field] = n,
                !.log = @ \o <<Eff("new", "", 0, n), Eff("set", field, 0, n)>>
                          \o CallEach(m.adapters, method, 0)]

addNewThingIn(m) == requestIn(m, "deferredAdd", "startPairing")
removeSomeThingIn(m) == requestIn(m, "deferredRemove", "startUnpairing")

\* cancelAddNewThing()
cancelAddNewThingIn(m) ==
  IF m.deferredAdd # 0 THEN
    [m EXCEPT !.log = @ \o CallEach(m.adapters, "cancelPairing", 0)
                        \o <<Eff("set", "deferredAdd", 0, 0), Eff("reject", "", 0, m.deferredAdd)>>,
              !.deferredAdd = 0,
              !.deferreds[m.deferredAdd] = DeferredReject(@, "addNewThing cancelled")]
  ELSE m

\* handleDeviceAdded(device), to the end of emit('thing-added', thing)
deviceAddedEmitIn(m, d) ==
  [m EXCEPT !.devices[DeviceIdOf(d)] = d,
            !.log = @ \o <<Eff("store", "devices", d, 0), Eff("emit", "thing-added", d, 0)>>]

\* handleDeviceAdded(device), from var deferredAdd = this.deferredAdd on;
\* owner is device.adapter
deviceAddedSessionIn(m, d, owner) ==
  IF m.deferredAdd # 0 THEN
    [m EXCEPT !.log = @ \o <<Eff("set", "deferredAdd", 0, 0)>>
                        \o CallEach(m.adapters, "cancelPairing", owner)
                        \o <<Eff("resolve", "", d, m.deferredAdd)>>,
              !.deferredAdd = 0,
              !.deferreds[m.deferredAdd] = DeferredResolve(@, getThing(d))]
  ELSE m

\* handleDeviceAdded(device) with no listener calling back into the manager
handleDeviceAddedIn(m, d, owner) == deviceAddedSessionIn(deviceAddedEmitIn(m, d), d, owner)

\* handleDeviceRemoved(device); owner is device.adapter
handleDeviceRemovedIn(m, d, owner) ==
  LET m1 == [m EXCEPT !.devices[DeviceIdOf(d)] = 0,
                      !.log = @ \o <<Eff("delete", "devices", d, 0),
                                     Eff("emit", "thing-removed", d, 0)>>]
  IN IF m.deferredRemove # 0 THEN
       [m1 EXCEPT !.log = @ \o <<Eff("set", "deferredRemove", 0, 0)>>
                            \o CallEach(m.adapters, "cancelUnpairing", owner)
                            \o <<Eff("resolve", "", d, m.deferredRemove)>>,
                  !.deferredRemove = 0,
                  !.deferreds[m.deferredRemove] = DeferredResolve(@, getThing(d))]
     ELSE m1

\* the manager's fields after a handler call that left them as m
MgrBecomes(m) ==
  /\ adapters' = m.adapters
  /\ devices' = m.devices
  /\ deferredAdd' = m.deferredAdd
  /\ deferredRemove' = m.deferredRemove
  /\ deferreds' = m.deferreds
  /\ log' = m.log

(***************************************************************************)
(* A listener of 'thing-added'.  EventEmitter.emit calls its listeners     *)
(* synchronously, so a listener that calls a manager method runs that      *)
(* method inside handleDeviceAdded, after the emit and before the session  *)
(* is read.  The effect k = "listener" marks the call (name: the method,   *)
(* a: its device argument).                                                *)
(***************************************************************************)
ListenerCalls == {"cancelAddNewThing", "addNewThing", "removeSomeThing", "handleDeviceAdded"}

\* the listener's call l, with device d2 where l takes one
ListenerRun(m, l, d2) ==
  LET m1 == [m EXCEPT !.log = @ \o <<Eff("listener", l, d2, 0)>>] IN
    CASE l = "cancelAddNewThing" -> cancelAddNewThingIn(m1)
      [] l = "addNewThing" -> addNewThingIn(m1)
      [] l = "removeSomeThing" -> removeSomeThingIn(m1)
      [] l = "handleDeviceAdded" -> handleDeviceAddedIn(m1, d2, DeviceAdapterOf(d2))

\* handleDeviceAdded(device) with a listener of 'thing-added' that calls l
handleDeviceAddedListened(d, l, d2) ==
  /\ l \in {"addNewThing", "removeSomeThing"} => Len(deferreds) < MaxDeferreds
  /\ l # "handleDeviceAdded" => d2 = d
  /\ lastOp' = Op("handleDeviceAdded", d, 0)
  /\ MgrBecomes(deviceAddedSessionIn(ListenerRun(deviceAddedEmitIn(Mgr, d), l, d2),
                                     d, DeviceAdapterOf(d)))

\* the manager with a listener of 'thing-added' that calls back into it
NextListened ==
  \/ Next
  \/ \E d \in DeviceObjs, l \in ListenerCalls, d2 \in DeviceObjs :
       handleDeviceAddedListened(d, l, d2) /\ UNCHANGED <<zw, plug, fanout>>

SpecListened == Init /\ [][NextListened]_vars

(***************************************************************************)
(* The lookups and the property proxies of the manager.  A JavaScript      *)
(* function that returns nothing returns undefined, as a read of a missing *)
(* dictionary key does.                                                    *)
(***************************************************************************)
Undefined == 0
UndefinedThing == [tag |-> "undefined", dev |-> 0, reason |-> ""]

\* the ids adapters are constructed with
AdapterIds == {AdapterIdOf(a) : a \in AdapterObjs}

\* this.adapters[id]
AdapterAt(id) == DictGet(adapters, id)
\* this.devices[id]
DeviceAt(id) == IF id \in DOMAIN devices THEN devices[id] ELSE Undefined

\* device.getProperty(propertyName) of a registered device: a defined value
DeviceGetProperty(d) == d

\* getAdapter(id)
getAdapter(id) ==
  /\ lastOp' = Op("getAdapter", id, AdapterAt(id))
  /\ log' = <<>>
  /\ UNCHANGED <<adapters, devices, deferredAdd, deferredRemove, deferreds>>

\* getDevice(id)
getDevice(id) ==
  /\ lastOp' = Op("getDevice", id, DeviceAt(id))
  /\ log' = <<>>
  /\ UNCHANGED <<adapters, devices, deferredAdd, deferredRemove, deferreds>>

\* getThing(thingId) without the test if (device)
getThingById_noGuard(id) ==
  /\ lastOp' = Op("getThing", id, getThing(DeviceAt(id)))
  /\ log' = <<Eff("device", "getThing", DeviceAt(id), 0)>>
  /\ UNCHANGED <<adapters, devices, deferredAdd, deferredRemove, deferreds>>

\* getThing(thingId)
getThingById(id) ==
  /\ IF DeviceAt(id) # Undefined THEN
       /\ lastOp' = Op("getThing", id, getThing(DeviceAt(id)))
       /\ log' = <<Eff("device", "getThing", DeviceAt(id), 0)>>
     ELSE
       /\ lastOp' = Op("getThing", id, UndefinedThing)
       /\ log' = <<>>
  /\ UNCHANGED <<adapters, devices, deferredAdd, deferredRemove, deferreds>>

\* getProperty(thingId, propertyName)
getProperty(id) ==
  /\ IF DeviceAt(id) # Undefined THEN
       /\ lastOp' = Op("getProperty", id, DeviceGetProperty(DeviceAt(id)))
       /\ log' = <<Eff("device", "getProperty", DeviceAt(id), 0)>>
     ELSE
       /\ lastOp' = Op("getProperty", id, Undefined)
       /\ log' = <<>>
  /\ UNCHANGED <<adapters, devices, deferredAdd, deferredRemove, deferreds>>

\* setProperty(thingId, propertyName, value)
setProperty(id) ==
  /\ lastOp' = Op("setProperty", id, Undefined)
  /\ IF DeviceAt(id) # Undefined
       THEN log' = <<Eff("device", "setProperty", DeviceAt(id), 0)>>
       ELSE log' = <<>>
  /\ UNCHANGED <<adapters, devices, deferredAdd, deferredRemove, deferreds>>

\* the manager's registries and sessions with its lookups and property
\* proxies
NextLookups ==
  \/ \E a \in AdapterObjs : addAdapter(a) /\ UNCHANGED <<zw, plug, fanout>>
  \/ \E d \in DeviceObjs : handleDeviceAdded(d) /\ UNCHANGED <<zw, plug, fanout>>
  \/ \E d \in DeviceObjs : handleDeviceRemoved(d) /\ UNCHANGED <<zw, plug, fanout>>
  \/ addNewThing /\ UNCHANGED <<zw, plug, fanout>>
  \/ \E id \in AdapterIds : getAdapter(id) /\ UNCHANGED <<zw, plug, fanout>>
  \/ \E id \in DeviceIds : getDevice(id) /\ UNCHANGED <<zw, plug, fanout>>
  \/ \E id \in DeviceIds : getThingById(id) /\ UNCHANGED <<zw, plug, fanout>>
  \/ \E id \in DeviceIds : getProperty(id) /\ UNCHANGED <<zw, plug, fanout>>
  \/ \E id \in DeviceIds : setProperty(id) /\ UNCHANGED <<zw, plug, fanout>>

SpecLookups == Init /\ [][NextLookups]_vars

(***************************************************************************)
(* The ZWaveAdapter's handlers.  The OpenZWave driver calls driverReady,   *)
(* driverFailed, nodeAdded, nodeNaming, nodeRemoved, nodeReady and         *)
(* scanComplete; startPairing, cancelPairing, startUnpairing and           *)
(* cancelUnpairing are the adapter's methods.  The Adapter base class      *)
(* passes handleDeviceAdded and handleDeviceRemoved on to the manager.     *)
(***************************************************************************)
\* the node id of the controller: nodes are reported if node.nodeId > 1
ControllerNodeId == 1

\* node.nodeId of the ZWaveNode made by new ZWaveNode(this, nodeId, '')
NodeIdOf(n) == n

\* the effect of the adapter calling method of zwaveClassifier or this.zwave
ZWEff(method, n) == Eff("zwave", method, n, 0)

\* this.zwave.<cmd>() on the state z of the adapter
ControllerCommand(z, cmd, mode) ==
  [z EXCEPT !.cmds = Append(@, cmd), !.mode = mode]

\* the adapter and the manager after a handler call: z the adapter, m the manager
ZWOut(z, m) == [z |-> z, m |-> m]

\* handleDeviceAdded(node) of ZWaveAdapter
zwaveHandleDeviceAdded(z, m, n) ==
  LET z1 == [z EXCEPT !.nodesBeingAdded = @ \ {n}] IN
    IF NodeIdOf(n) > ControllerNodeId THEN
      ZWOut(z1, handleDeviceAddedIn([m EXCEPT !.log = Append(@, ZWEff("classify", n))],
                                    n, ZWaveAdapterObj))
    ELSE ZWOut(z1, m)

\* handleDeviceRemoved(node) of ZWaveAdapter
zwaveHandleDeviceRemoved(z, m, n) ==
  ZWOut([z EXCEPT !.nodes = @ \ {n}, !.named = @ \ {n}, !.nodesBeingAdded = @ \ {n}],
        handleDeviceRemovedIn(m, n, ZWaveAdapterObj))

\* the least node id of ns: for (var nodeId in ...) visits integer keys in
\* ascending order
FirstNode(ns) == CHOOSE n \in ns : \A o \in ns : n <= o

\* the loop of scanComplete over the nodes ns of this.nodesBeingAdded
RECURSIVE ScanNodes(_, _)
ScanNodes(s, ns) ==
  IF ns = {} THEN s
  ELSE LET n == FirstNode(ns) IN
         ScanNodes(zwaveHandleDeviceAdded(s.z, s.m, n), ns \ {n})

\* the state after a handler call of the adapter that left it as s
ZWBecomes(s) ==
  /\ zw' = s.z
  /\ MgrBecomes(s.m)
  /\ UNCHANGED <<plug, fanout>>

\* the adapter at the start of a handler call
ZWNow == [zw EXCEPT !.cmds = <<>>]

\* new ZWaveAdapter(adapterManager, port) registering itself at once
ZWaveAdapter_registers ==
  /\ ~zw.constructed
  /\ ZWBecomes(ZWOut([ZWNow EXCEPT !.constructed = TRUE, !.connected = TRUE],
                     addAdapterIn(Mgr, ZWaveAdapterObj, ProvisionalId)))
  /\ lastOp' = Op("ZWaveAdapter", 0, 0)

\* new ZWaveAdapter(adapterManager, port), as loadZWaveAdapters calls it
ZWaveAdapter ==
  /\ ~zw.constructed
  /\ ZWBecomes(ZWOut([ZWNow EXCEPT !.constructed = TRUE, !.connected = TRUE],
                     [Mgr EXCEPT !.log = <<ZWEff("connect", 0)>>]))
  /\ lastOp' = Op("ZWaveAdapter", 0, 0)

\* driverReady(homeId)
driverReady(h) ==
  /\ zw.constructed
  /\ ZWBecomes(ZWOut([ZWNow EXCEPT !.id = ZWaveIdOf(h)],
                     addAdapterIn(Mgr, ZWaveAdapterObj, ZWaveIdOf(h))))
  /\ lastOp' = Op("driverReady", h, 0)

\* driverFailed()
driverFailed ==
  /\ zw.constructed
  /\ ZWBecomes(ZWOut([ZWNow EXCEPT !.connected = FALSE],
                     [Mgr EXCEPT !.log = <<ZWEff("disconnect", 0)>>]))
  /\ lastOp' = Op("driverFailed", 0, 0)

\* nodeAdded(nodeId): a new ZWaveNode, not named yet
nodeAdded(n) ==
  /\ zw.constructed
  /\ ZWBecomes(ZWOut([ZWNow EXCEPT !.nodes = @ \cup {n}, !.named = @ \ {n},
                                   !.nodesBeingAdded = @ \cup {n}], Mgr))
  /\ lastOp' = Op("nodeAdded", n, 0)

\* nodeNaming(nodeId, nodeInfo)
nodeNaming(n) ==
  /\ zw.constructed
  /\ ZWBecomes(ZWOut(IF n \in zw.nodes THEN [ZWNow EXCEPT !.named = @ \cup {n}] ELSE ZWNow,
                     Mgr))
  /\ lastOp' = Op("nodeNaming", n, 0)

\* nodeRemoved(nodeId)
nodeRemoved(n) ==
  /\ zw.constructed
  /\ ZWBecomes(IF n \in zw.nodes THEN zwaveHandleDeviceRemoved(ZWNow, Mgr, n)
               ELSE ZWOut(ZWNow, Mgr))
  /\ lastOp' = Op("nodeRemoved", n, 0)

\* nodeReady(nodeId, nodeInfo) without the test of this.nodesBeingAdded
nodeReady_always(n) ==
  /\ zw.constructed
  /\ ZWBecomes(IF n \in zw.nodes
               THEN zwaveHandleDeviceAdded(ZWNow, Mgr, n)
               ELSE ZWOut(ZWNow, Mgr))
  /\ lastOp' = Op("nodeReady", n, 0)

\* nodeReady(nodeId, nodeInfo)
nodeReady(n) ==
  /\ zw.constructed
  /\ ZWBecomes(IF n \in zw.nodes /\ n \in zw.nodesBeingAdded
               THEN zwaveHandleDeviceAdded(ZWNow, Mgr, n)
               ELSE ZWOut(ZWNow, Mgr))
  /\ lastOp' = Op("nodeReady", n, 0)

\* scanComplete()
scanComplete ==
  /\ zw.constructed
  /\ ZWBecomes(ScanNodes(ZWOut(ZWNow, Mgr), zw.nodesBeingAdded))
  /\ lastOp' = Op("scanComplete", 0, 0)

\* startPairing()
startPairing ==
  /\ zw.constructed
  /\ ZWBecomes(ZWOut(ControllerCommand(ZWNow, "addNode", "add"), Mgr))
  /\ lastOp' = Op("startPairing", 0, 0)

\* cancelPairing()
cancelPairing ==
  /\ zw.constructed
  /\ ZWBecomes(ZWOut(ControllerCommand(ZWNow, "cancelControllerCommand", "none"), Mgr))
  /\ lastOp' = Op("cancelPairing", 0, 0)

\* startUnpairing()
startUnpairing ==
  /\ zw.constructed
  /\ ZWBecomes(ZWOut(ControllerCommand(ZWNow, "removeNode", "remove"), Mgr))
  /\ lastOp' = Op("startUnpairing", 0, 0)

\* cancelUnpairing()
cancelUnpairing ==
  /\ zw.constructed
  /\ ZWBecomes(ZWOut(ControllerCommand(ZWNow, "cancelControllerCommand", "none"), Mgr))
  /\ lastOp' = Op("cancelUnpairing", 0, 0)

\* the adapter z after the manager has called method on it
ZWCall(z, method) ==
  CASE method = "startPairing" -> ControllerCommand(z, "addNode", "add")
    [] method = "startUnpairing" -> ControllerCommand(z, "removeNode", "remove")
    [] method = "unload" -> [z EXCEPT !.cmds = Append(@, "disconnect"), !.connected = FALSE]
    [] OTHER -> ControllerCommand(z, "cancelControllerCommand", "none")

\* the adapter z after the calls to it among the effects l of a manager call
RECURSIVE ZWCalls(_, _)
ZWCalls(z, l) ==
  IF l = <<>> THEN z
  ELSE ZWCalls(IF l[1].k = "call" /\ l[1].a = ZWaveAdapterObj THEN ZWCall(z, l[1].name) ELSE z,
               Tail(l))

\* the ZWaveAdapter, driven by the OpenZWave driver and by calls of its methods
NextZWave ==
  \/ ZWaveAdapter
  \/ \E h \in HomeIds : driverReady(h)
  \/ driverFailed
  \/ \E n \in NodeIds : nodeAdded(n)
  \/ \E n \in NodeIds : nodeNaming(n)
  \/ \E n \in NodeIds : nodeRemoved(n)
  \/ \E n \in NodeIds : nodeReady(n)
  \/ scanComplete
  \/ startPairing
  \/ cancelPairing
  \/ startUnpairing
  \/ cancelUnpairing

SpecZWave == Init /\ [][NextZWave]_vars

\* the ZWaveAdapter and the manager's sessions, whose handlers call the
\* adapter's methods
NextZWaveSessions ==
  \/ NextZWave
  \/ addNewThing /\ zw' = ZWCalls(ZWNow, log') /\ UNCHANGED <<plug, fanout>>
  \/ cancelAddNewThing /\ zw' = ZWCalls(ZWNow, log') /\ UNCHANGED <<plug, fanout>>
  \/ removeSomeThing /\ zw' = ZWCalls(ZWNow, log') /\ UNCHANGED <<plug, fanout>>
  \/ cancelRemoveSomeThing /\ zw' = ZWCalls(ZWNow, log') /\ UNCHANGED <<plug, fanout>>

SpecZWaveSessions == Init /\ [][NextZWaveSessions]_vars

(***************************************************************************)
(* Shutdown.  The SIGINT handler of app.js calls unloadAdapters(), which   *)
(* calls unload() on every adapter of the registry; unload() of the        *)
(* ZWaveAdapter disconnects the driver.                                    *)
(***************************************************************************)
\* unloadAdapters() that also rejects the futures of the active sessions
unloadAdapters_endsSessions ==
  /\ lastOp' = Op("unloadAdapters", 0, 0)
  /\ log' = CallEach(adapters, "unload", 0)
  /\ deferredAdd' = 0
  /\ deferredRemove' = 0
  /\ deferreds' = [i \in DOMAIN deferreds |->
                     IF i \in {deferredAdd, deferredRemove}
                     THEN DeferredReject(deferreds[i], "unloaded") ELSE deferreds[i]]
  /\ UNCHANGED <<adapters, devices>>

\* unloadAdapters()
unloadAdapters ==
  /\ lastOp' = Op("unloadAdapters", 0, 0)
  /\ log' = CallEach(adapters, "unload", 0)
  /\ UNCHANGED <<adapters, devices, deferredAdd, deferredRemove, deferreds>>

\* a call of the manager with a ZWaveAdapter loaded: the adapter after the
\* calls the manager made on it
WithZWave ==
  /\ zw' = ZWCalls(ZWNow, log')
  /\ UNCHANGED <<plug, fanout>>

\* the manager with plain adapters and a ZWaveAdapter, sessions, and shutdown
NextUnload ==
  \/ \E a \in AdapterObjs : addAdapter(a) /\ WithZWave
  \/ addNewThing /\ WithZWave
  \/ removeSomeThing /\ WithZWave
  \/ \E d \in DeviceObjs : handleDeviceAdded(d) /\ WithZWave
  \/ ZWaveAdapter
  \/ \E h \in HomeIds : driverReady(h)
  \/ unloadAdapters /\ WithZWave

SpecUnload == Init /\ [][NextUnload]_vars

(***************************************************************************)
(* The manager with the history of its sessions: fanout is the set of      *)
(* adapter objects that addNewThing() or removeSomeThing() called when it  *)
(* started the active session, and is empty when no session is active.     *)
(***************************************************************************)
\* the adapter objects a call of method is made on among the effects l
CalledWith(l, method) ==
  {l[i].a : i \in {j \in 1..Len(l) : l[j].k = "call" /\ l[j].name = method}}

\* fanout after a handler call of the manager
Tracked ==
  /\ fanout' = IF \E i \in 1..Len(log') : log'[i].k = "set" /\ log'[i].n # 0
               THEN CalledWith(log', "startPairing") \cup CalledWith(log', "startUnpairing")
               ELSE IF deferredAdd' = 0 /\ deferredRemove' = 0 THEN {}
               ELSE fanout
  /\ UNCHANGED <<zw, plug>>

NextTracked ==
  \/ \E a \in AdapterObjs : addAdapter(a) /\ Tracked
  \/ addNewThing /\ Tracked
  \/ cancelAddNewThing /\ Tracked
  \/ cancelRemoveSomeThing /\ Tracked
  \/ \E d \in DeviceObjs : handleDeviceAdded(d) /\ Tracked
  \/ \E d \in DeviceObjs : handleDeviceRemoved(d) /\ Tracked
  \/ removeSomeThing /\ Tracked

SpecTracked == Init /\ [][NextTracked]_vars

(***************************************************************************)
(* The loader of the ZWaveAdapter.  SerialPort.list calls                  *)
(* listPortsCallback(error, ports) once; ports is the list of serial       *)
(* ports, each a Z-Wave port or not, and is undefined or a list when error *)
(* is set.  The effect k = "callback" is a call of findZWavePort's         *)
(* callback (name "error" or "port"), k = "throw" an exception that leaves *)
(* listPortsCallback.                                                      *)
(***************************************************************************)
\* the most serial ports of a scan
MaxPorts == 2

\* the lists of serial ports: TRUE for a port isZWavePort accepts
RECURSIVE PortListsOf(_)
PortListsOf(n) ==
  IF n = 0 THEN {<<>>}
  ELSE LET shorter == PortListsOf(n - 1) IN
         shorter \cup {Append(l, b) : l \in {x \in shorter : Len(x) = n - 1}, b \in BOOLEAN}
PortLists == PortListsOf(MaxPorts)

\* the callback loadZWaveAdapters passes to findZWavePort, called with
\* (error, port): s is the adapter and the effects so far
loaderCallback(s, error) ==
  IF error
  THEN [s EXCEPT !.log = @ \o <<Eff("callback", "error", 0, 0),
                                Eff("console.error", "Unable to find ZWave adapter", 0, 0)>>]
  ELSE [z |-> [s.z EXCEPT !.constructed = TRUE, !.connected = TRUE],
        log |-> s.log \o <<Eff("callback", "port", 0, 0), ZWEff("construct", 0),
                           ZWEff("connect", 0)>>]

\* the loop of listPortsCallback over ports, and the call after it
RECURSIVE ScanPorts(_, _)
ScanPorts(s, ports) ==
  IF ports = <<>> THEN loaderCallback(s, TRUE)
  ELSE IF ports[1] THEN loaderCallback(s, FALSE)
  ELSE ScanPorts(s, Tail(ports))

\* listPortsCallback(error, ports); defined is whether ports is a list
listPortsCallback(s, error, defined, ports) ==
  LET s1 == IF error THEN loaderCallback(s, TRUE) ELSE s IN
    IF defined THEN ScanPorts(s1, ports)
    ELSE [s1 EXCEPT !.log = Append(@, Eff("throw", "TypeError", 0, 0))]

\* loadZWaveAdapters(adapterManager), to the end of listPortsCallback
loadZWaveAdapters(error, defined, ports) ==
  /\ ~zw.constructed
  /\ ~error => defined
  /\ LET s == listPortsCallback([z |-> ZWNow, log |-> <<>>], error, defined, ports) IN
       /\ zw' = s.z
       /\ log' = s.log
  /\ lastOp' = Op("loadZWaveAdapters", IF error THEN 1 ELSE 0, 0)
  /\ UNCHANGED <<adapters, devices, deferredAdd, deferredRemove, deferreds, plug, fanout>>

\* the loader and the ZWaveAdapter
NextLoader ==
  \/ \E error \in BOOLEAN, defined \in BOOLEAN, ports \in PortLists :
       loadZWaveAdapters(error, defined, ports)
  \/ NextZWave

SpecLoader == Init /\ [][NextLoader]_vars

(***************************************************************************)
(* The SmartPlug's methods and the callbacks of its requests.  fetch()     *)
(* returns at once; the response of a request arrives later, in any order  *)
(* with the others, and runs the request's then() callbacks, or its        *)
(* catch() callback when the request or the parsing of its body failed.    *)
(***************************************************************************)
\* the number of requests outstanding
Outstanding(p) ==
  p.pending["GET on"] + p.pending["GET power"] + p.pending["PUT true"] + p.pending["PUT false"]

\* fetch(url, opts): one more request r outstanding
Fetch(p, r) == [p EXCEPT !.pending[r] = @ + 1]

\* the response of request r has arrived
Responded(p, r) == [p EXCEPT !.pending[r] = @ - 1]

\* whether this.properties.power is truthy
PowerTruthy(p) == p.power # NoPower /\ p.power # 0

\* showPower(power)
showPower(p, power) == [p EXCEPT !.label = IF PowerTruthy(p) THEN power ELSE 0]

\* showOn()
showOn(p) == showPower([p EXCEPT !.shown = "on"], p.power)

\* showOff()
showOff(p) == [p EXCEPT !.shown = "off", !.label = LabelOff]

\* showTransition()
showTransition(p) == [p EXCEPT !.shown = "none"]

\* the body of a response to a read: {on: v} or {instantaneousPower: v}
OnData(v) == [hasOn |-> TRUE, on |-> v, hasPower |-> FALSE, power |-> 0]
PowerData(v) == [hasOn |-> FALSE, on |-> FALSE, hasPower |-> TRUE, power |-> v]

\* onPropertyStatus(data)
onPropertyStatus(p, data) ==
  LET p1 == IF data.hasOn
            THEN LET q == [p EXCEPT !.on = IF data.on THEN "true" ELSE "false"]
                 IN IF data.on THEN showOn(q) ELSE showOff(q)
            ELSE p
      p2 == IF data.hasPower THEN [p1 EXCEPT !.power = data.power] ELSE p1
  IN IF data.hasPower /\ p2.on = "true" /\ PowerTruthy(p2)
     THEN showPower(p2, data.power)
     ELSE p2

\* the two requests of updateStatus()
updateStatusIn(p) == Fetch(Fetch(p, "GET on"), "GET power")

\* a step of the SmartPlug: it leaves the manager and the ZWaveAdapter alone
PlugBecomes(p, op, effects) ==
  /\ plug' = p
  /\ lastOp' = op
  /\ log' = effects
  /\ UNCHANGED <<adapters, devices, deferredAdd, deferredRemove, deferreds, zw, fanout>>

\* new SmartPlug(description, format), format not 'svg'
SmartPlug ==
  /\ ~plug.constructed
  /\ PlugBecomes(updateStatusIn([plug EXCEPT !.constructed = TRUE]),
                 Op("SmartPlug", 0, 0),
                 <<Eff("fetch", "GET on", 0, 0), Eff("fetch", "GET power", 0, 0)>>)

\* the history of writes after a write of value v is issued
Written(p, v) ==
  [p EXCEPT !.lastWrite = v,
            !.clean = IF p.pending["PUT true"] + p.pending["PUT false"] = 0 THEN TRUE ELSE @]

\* updateStatus()
updateStatus ==
  /\ plug.constructed
  /\ Outstanding(plug) + 2 <= MaxRequests
  /\ PlugBecomes(updateStatusIn(plug), Op("updateStatus", 0, 0),
                 <<Eff("fetch", "GET on", 0, 0), Eff("fetch", "GET power", 0, 0)>>)

\* turnOn()
turnOn ==
  /\ plug.constructed
  /\ Outstanding(plug) < MaxRequests
  /\ PlugBecomes(Fetch([showTransition(Written(plug, "true")) EXCEPT !.on = "null"], "PUT true"),
                 Op("turnOn", 0, 0), <<Eff("fetch", "PUT true", 0, 0)>>)

\* turnOff()
turnOff ==
  /\ plug.constructed
  /\ Outstanding(plug) < MaxRequests
  /\ PlugBecomes(Fetch([showTransition(Written(plug, "false")) EXCEPT !.on = "null"], "PUT false"),
                 Op("turnOff", 0, 0), <<Eff("fetch", "PUT false", 0, 0)>>)

\* the then() callbacks of the read of 'on' in updateStatus(): the body is {on: v}
onRead(v) ==
  /\ plug.pending["GET on"] > 0
  /\ PlugBecomes(onPropertyStatus(Responded(plug, "GET on"), OnData(v)),
                 Op("onRead", IF v THEN 1 ELSE 0, 0), <<>>)

\* the then() callbacks of the read of 'instantaneousPower' in updateStatus()
powerRead(v) ==
  /\ plug.pending["GET power"] > 0
  /\ PlugBecomes(onPropertyStatus(Responded(plug, "GET power"), PowerData(v)),
                 Op("powerRead", v, 0), <<>>)

\* the catch() callback of a read in updateStatus() that also clears the
\* cached value
readFailed_forgets(r) ==
  /\ r \in {"GET on", "GET power"}
  /\ plug.pending[r] > 0
  /\ PlugBecomes([Responded(plug, r) EXCEPT !.on = "null"],
                 Op("readFailed", 0, 0), <<Eff("console.error", r, 0, 0)>>)

\* the catch() callback of a read in updateStatus(): the request failed or
\* its body was not JSON
readFailed(r) ==
  /\ r \in {"GET on", "GET power"}
  /\ plug.pending[r] > 0
  /\ PlugBecomes(Responded(plug, r), Op("readFailed", 0, 0),
                 <<Eff("console.error", r, 0, 0)>>)

\* the then() callback of the write in turnOn() (on = TRUE) or turnOff()
\* (on = FALSE), the response carrying status
writeResponded(on, status) ==
  LET r == IF on THEN "PUT true" ELSE "PUT false"
      p == Responded(plug, r)
  IN /\ plug.pending[r] > 0
     /\ IF status = StatusOK
        THEN PlugBecomes([(IF on THEN showOn(p) ELSE showOff(p))
                            EXCEPT !.on = IF on THEN "true" ELSE "false"],
                         Op("writeResponded", status, 0), <<>>)
        ELSE PlugBecomes([p EXCEPT !.clean = FALSE], Op("writeResponded", status, 0),
                         <<Eff("console.error", r, 0, status)>>)

\* the catch() callback of the write in turnOn() or turnOff()
writeFailed(on) ==
  LET r == IF on THEN "PUT true" ELSE "PUT false" IN
    /\ plug.pending[r] > 0
    /\ PlugBecomes([Responded(plug, r) EXCEPT !.clean = FALSE], Op("writeFailed", 0, 0),
                   <<Eff("console.error", r, 0, 0)>>)

\* the SmartPlug, its user and the responses to its requests
NextSmartPlug ==
  \/ SmartPlug
  \/ updateStatus
  \/ turnOn
  \/ turnOff
  \/ \E v \in BOOLEAN : onRead(v)
  \/ \E v \in PowerValues : powerRead(v)
  \/ \E r \in Requests : readFailed(r)
  \/ \E on \in BOOLEAN, status \in Statuses : writeResponded(on, status)
  \/ \E on \in BOOLEAN : writeFailed(on)

SpecSmartPlug == Init /\ [][NextSmartPlug]_vars

(***************************************************************************)
(* Reading the effects of a handler call.                                  *)
(***************************************************************************)
\* the number of calls of method on adapter object a among the effects l
CallsOf(l, method, a) ==
  Cardinality({i \in 1..Len(l) : l[i].k = "call" /\ l[i].name = method /\ l[i].a = a})

\* the positions of the effects of kind k in l
Positions(l, k) == {i \in 1..Len(l) : l[i].k = k}

\* the adapter objects in the adapter registry
Registered == DictObjs(adapters)

\* a step that is a call of addNewThing() or removeSomeThing()
RequestStep == lastOp'.op \in {"addNewThing", "removeSomeThing"}

\* a step in which an active session ends
SessionEnds ==
  \/ deferredAdd # 0 /\ deferredAdd' # deferredAdd
  \/ deferredRemove # 0 /\ deferredRemove' # deferredRemove

(***************************************************************************)
(* C1: in every reachable state at most one pairing session is active:     *)
(* deferredAdd and deferredRemove are never both non-null.                 *)
(***************************************************************************)
C1_MutualExclusion == ~(deferredAdd # 0 /\ deferredRemove # 0)

\* a removeSomeThing() was made while an add session was active
C1_Witness ==
  /\ lastOp.op = "removeSomeThing"
  /\ deferredAdd # 0
  /\ deferredAdd # lastOp.ret

(***************************************************************************)
(* C2: while a session of either kind is active, every addNewThing() and   *)
(* removeSomeThing() returns a future that is already rejected, calls no   *)
(* adapter method and is never queued: a rejected future never becomes a   *)
(* session, and the step that ends the active session starts nothing.      *)
(***************************************************************************)
C2_RejectedNotQueued ==
  /\ [][(RequestStep /\ (deferredAdd # 0 \/ deferredRemove # 0)) =>
          /\ lastOp'.ret = Len(deferreds) + 1
          /\ lastOp'.ret \in DOMAIN deferreds'
          /\ deferreds'[lastOp'.ret].state = "rejected"
          /\ Positions(log', "call") = {}
          /\ Positions(log', "set") = {}
          /\ deferredAdd' = deferredAdd
          /\ deferredRemove' = deferredRemove]_vars
  /\ [](\A i \in DOMAIN deferreds :
          deferreds[i].state = "rejected" => i \notin {deferredAdd, deferredRemove})
  /\ [][\A i \in DOMAIN deferreds :
          deferreds[i].state = "rejected" => deferreds'[i] = deferreds[i]]_vars
  /\ [][SessionEnds =>
          /\ deferredAdd' = 0
          /\ deferredRemove' = 0
          /\ \A a \in AdapterObjs :
               /\ CallsOf(log', "startPairing", a) = 0
               /\ CallsOf(log', "startUnpairing", a) = 0]_vars

\* a request was rejected during a remove session and that session has ended
C2_Witness ==
  /\ Len(deferreds) = 2
  /\ deferreds[1].state # "pending"
  /\ deferreds[2].state = "rejected"
  /\ deferreds[2].value = Reason("Remove already in progress")
  /\ lastOp.op \in {"handleDeviceRemoved", "cancelRemoveSomeThing"}
  /\ Len(adapters) >= 2
  /\ deferredAdd = 0
  /\ deferredRemove = 0

(***************************************************************************)
(* C3: a request rejected during Adding leaves the add session as it was:  *)
(* deferredAdd is the same, still pending, future, both registries are     *)
(* unchanged, and a handleDeviceAdded that follows resolves that future    *)
(* with the thing of the reported device.                                  *)
(***************************************************************************)
C3_RejectionLeavesSession ==
  /\ [][(RequestStep /\ deferredAdd # 0) =>
          /\ deferredAdd' = deferredAdd
          /\ deferredRemove' = deferredRemove
          /\ deferreds'[deferredAdd] = deferreds[deferredAdd]
          /\ deferreds'[deferredAdd].state = "pending"
          /\ adapters' = adapters
          /\ devices' = devices]_vars
  /\ [][(/\ lastOp.op \in {"addNewThing", "removeSomeThing"}
         /\ deferredAdd # 0
         /\ deferredAdd # lastOp.ret
         /\ lastOp'.op = "handleDeviceAdded") =>
          /\ deferreds'[deferredAdd].state = "resolved"
          /\ deferreds'[deferredAdd].value = getThing(lastOp'.arg)]_vars

\* an add session was resolved after a request had been rejected during it
C3_Witness ==
  /\ lastOp.op = "handleDeviceAdded"
  /\ Len(deferreds) = 2
  /\ deferreds[1].state = "resolved"
  /\ deferreds[1].value = getThing(lastOp.arg)
  /\ deferreds[2].state = "rejected"
  /\ deferreds[2].value = Reason("Add already in progress")

(***************************************************************************)
(* C4: handleDeviceAdded(device) during an add session resolves the        *)
(* session's future with the device's thing, leaves no session active,     *)
(* and calls cancelPairing() exactly once on every registered adapter      *)
(* other than device.adapter and not at all on device.adapter.             *)
(***************************************************************************)
C4_DeviceAddedResolves ==
  [][(deferredAdd # 0 /\ lastOp'.op = "handleDeviceAdded") =>
       /\ deferreds'[deferredAdd].state = "resolved"
       /\ deferreds'[deferredAdd].value = getThing(lastOp'.arg)
       /\ deferredAdd' = 0
       /\ deferredRemove' = 0
       /\ \A a \in AdapterObjs :
            CallsOf(log', "cancelPairing", a) =
              IF a \in Registered /\ a # DeviceAdapterOf(lastOp'.arg) THEN 1 ELSE 0]_vars

\* a device of a registered adapter was reported during an add session with
\* another adapter registered
C4_Witness ==
  /\ lastOp.op = "handleDeviceAdded"
  /\ Positions(log, "resolve") # {}
  /\ DeviceAdapterOf(lastOp.arg) \in Registered
  /\ Len(adapters) >= 2

(***************************************************************************)
(* C5: the future of every session is settled at most once: no Deferred    *)
(* has resolve or reject called on it twice, a settled future keeps its    *)
(* state and value, and a handleDeviceAdded or a cancel that finds no      *)
(* session settles nothing.                                                *)
(***************************************************************************)
C5_SettledOnce ==
  /\ [](\A i \in DOMAIN deferreds : deferreds[i].settles <= 1)
  /\ [][\A i \in DOMAIN deferreds :
          deferreds[i].state # "pending" => deferreds'[i] = deferreds[i]]_vars
  /\ [][(deferredAdd = 0 /\ lastOp'.op \in {"handleDeviceAdded", "cancelAddNewThing"}) =>
          /\ Positions(log', "resolve") = {}
          /\ Positions(log', "reject") = {}
          /\ deferreds' = deferreds]_vars

\* a second device was reported after the first report resolved the session
C5_Witness ==
  /\ lastOp.op = "handleDeviceAdded"
  /\ Positions(log, "resolve") = {}
  /\ Len(deferreds) = 1
  /\ deferreds[1].state = "resolved"
  /\ deferreds[1].value # getThing(lastOp.arg)
  /\ devices[DeviceIdOf(deferreds[1].value.dev)] # 0

\* the calls among the effects l are exactly one call of method on every
\* adapter object of the set on, and no other call
CalledOnceOnEach(l, method, on) ==
  /\ \A a \in AdapterObjs : CallsOf(l, method, a) = IF a \in on THEN 1 ELSE 0
  /\ Cardinality(Positions(l, "call")) = Cardinality(on)

(***************************************************************************)
(* C6: cancelAddNewThing() during an add session calls cancelPairing()     *)
(* exactly once on every registered adapter, rejects the session's future  *)
(* with a reason and leaves no session active, and a request that follows  *)
(* the cancel is accepted; cancelRemoveSomeThing() does the same with      *)
(* cancelUnpairing() for a remove session.                                 *)
(***************************************************************************)
C6_CancelEndsSession ==
  /\ [][(deferredAdd # 0 /\ lastOp'.op = "cancelAddNewThing") =>
          /\ CalledOnceOnEach(log', "cancelPairing", Registered)
          /\ deferreds'[deferredAdd].state = "rejected"
          /\ deferreds'[deferredAdd].value.tag = "reason"
          /\ deferreds'[deferredAdd].value.reason # ""
          /\ deferredAdd' = 0
          /\ deferredRemove' = 0]_vars
  /\ [][(deferredRemove # 0 /\ lastOp'.op = "cancelRemoveSomeThing") =>
          /\ CalledOnceOnEach(log', "cancelUnpairing", Registered)
          /\ deferreds'[deferredRemove].state = "rejected"
          /\ deferreds'[deferredRemove].value.tag = "reason"
          /\ deferreds'[deferredRemove].value.reason # ""
          /\ deferredAdd' = 0
          /\ deferredRemove' = 0]_vars
  /\ [][(/\ lastOp.op \in {"cancelAddNewThing", "cancelRemoveSomeThing"}
         /\ Positions(log, "reject") # {}
         /\ RequestStep) =>
          /\ deferreds'[lastOp'.ret].state = "pending"
          /\ lastOp'.ret = IF lastOp'.op = "addNewThing" THEN deferredAdd' ELSE deferredRemove']_vars

\* an add session with two adapters registered was cancelled and the request
\* made after it was accepted
C6_Witness ==
  /\ Len(deferreds) = 2
  /\ deferreds[1].value = Reason("addNewThing cancelled")
  /\ deferreds[2].state = "pending"
  /\ lastOp.op \in {"addNewThing", "removeSomeThing"}
  /\ lastOp.ret = 2
  /\ Len(adapters) >= 2

(***************************************************************************)
(* C7: a cancel with no matching session is a no-op: cancelAddNewThing()   *)
(* with no add session and cancelRemoveSomeThing() with no remove session  *)
(* return normally, call no adapter method, settle no future and leave     *)
(* deferredAdd, deferredRemove, the futures and both registries unchanged, *)
(* so that repeating them changes nothing either.                          *)
(***************************************************************************)
C7_CancelWithoutSession ==
  /\ [][(deferredAdd = 0 /\ lastOp'.op = "cancelAddNewThing") =>
          /\ log' = <<>>
          /\ UNCHANGED <<adapters, devices, deferredAdd, deferredRemove, deferreds>>]_vars
  /\ [][(deferredRemove = 0 /\ lastOp'.op = "cancelRemoveSomeThing") =>
          /\ log' = <<>>
          /\ UNCHANGED <<adapters, devices, deferredAdd, deferredRemove, deferreds>>]_vars

\* cancelRemoveSomeThing() was called during an add session with an adapter
\* registered
C7_Witness ==
  /\ lastOp.op = "cancelRemoveSomeThing"
  /\ log = <<>>
  /\ deferredAdd # 0
  /\ deferreds[deferredAdd].state = "pending"
  /\ Len(adapters) >= 1

(***************************************************************************)
(* C8: addNewThing() with no session active makes the new future the add   *)
(* session, calls startPairing() exactly once on every registered adapter  *)
(* and returns that future still pending.                                  *)
(***************************************************************************)
C8_AddStartsPairing ==
  [][(deferredAdd = 0 /\ deferredRemove = 0 /\ lastOp'.op = "addNewThing") =>
       /\ lastOp'.ret = Len(deferreds) + 1
       /\ deferredAdd' = lastOp'.ret
       /\ deferredRemove' = 0
       /\ deferreds'[lastOp'.ret] = NewDeferred
       /\ CalledOnceOnEach(log', "startPairing", Registered)]_vars

\* an add session was started with two adapters registered
C8_Witness ==
  /\ lastOp.op = "addNewThing"
  /\ deferredAdd = lastOp.ret
  /\ Len(adapters) >= 2

(***************************************************************************)
(* C9: the remove path mirrors the add path: removeSomeThing() with no     *)
(* session active makes the new future the remove session and calls        *)
(* startUnpairing() once on every registered adapter; handleDeviceRemoved  *)
(* during a remove session resolves the session's future with the device's *)
(* thing, leaves no session active and calls cancelUnpairing() once on     *)
(* every registered adapter except device.adapter.                         *)
(***************************************************************************)
C9_RemoveMirrorsAdd ==
  /\ [][(deferredAdd = 0 /\ deferredRemove = 0 /\ lastOp'.op = "removeSomeThing") =>
          /\ lastOp'.ret = Len(deferreds) + 1
          /\ deferredRemove' = lastOp'.ret
          /\ deferredAdd' = 0
          /\ deferreds'[lastOp'.ret] = NewDeferred
          /\ CalledOnceOnEach(log', "startUnpairing", Registered)]_vars
  /\ [][(deferredRemove # 0 /\ lastOp'.op = "handleDeviceRemoved") =>
          /\ deferreds'[deferredRemove].state = "resolved"
          /\ deferreds'[deferredRemove].value = getThing(lastOp'.arg)
          /\ deferredAdd' = 0
          /\ deferredRemove' = 0
          /\ CalledOnceOnEach(log', "cancelUnpairing",
                              Registered \ {DeviceAdapterOf(lastOp'.arg)})]_vars

\* the removal of a device of a registered adapter was reported during a
\* remove session with another adapter registered
C9_Witness ==
  /\ lastOp.op = "handleDeviceRemoved"
  /\ Positions(log, "resolve") # {}
  /\ DeviceAdapterOf(lastOp.arg) \in Registered
  /\ Len(adapters) >= 2

(***************************************************************************)
(* C10: every handleDeviceAdded(device) call works in a strict order: the  *)
(* device is written to the registry before the thing-added event is       *)
(* published, exactly one thing-added event (and no other event) is        *)
(* published, carrying the device's thing, and the add future, if a        *)
(* session is active, is resolved only after that event.                   *)
(***************************************************************************)
C10_DeviceAddedOrder ==
  lastOp.op = "handleDeviceAdded" =>
    LET d == lastOp.arg
        emits == Positions(log, "emit")
    IN /\ devices[DeviceIdOf(d)] = d
       /\ Cardinality(emits) = 1
       /\ \A j \in emits : log[j].name = "thing-added" /\ log[j].a = d
       /\ \E i \in Positions(log, "store") :
            /\ log[i].name = "devices"
            /\ log[i].a = d
            /\ \A j \in emits : i < j
       /\ \A r \in Positions(log, "resolve") : \A j \in emits : j < r

\* a device was reported during an add session and resolved it
C10_Witness ==
  /\ lastOp.op = "handleDeviceAdded"
  /\ \E r \in Positions(log, "resolve") : log[r].a = lastOp.arg /\ r = Len(log)

(***************************************************************************)
(* C11: the register/publish/resolve sequence of handleDeviceAdded is      *)
(* atomic: whatever manager method is called between the publication of    *)
(* thing-added and the resolution, also from inside a listener of          *)
(* thing-added, a session that is active when handleDeviceAdded(device)    *)
(* is called has its future resolved with the thing of that device.        *)
(***************************************************************************)
C11_AtomicAgainstListeners ==
  [][(deferredAdd # 0 /\ lastOp'.op = "handleDeviceAdded") =>
       /\ deferreds'[deferredAdd].state = "resolved"
       /\ deferreds'[deferredAdd].value = getThing(lastOp'.arg)]_vars

(***************************************************************************)
(* C12: after handleDeviceRemoved(device) the registry has no entry for    *)
(* device.id, and the call published exactly one event, thing-removed      *)
(* carrying the device's thing, after it deleted the registry entry.       *)
(***************************************************************************)
C12_RemovedThenPublished ==
  lastOp.op = "handleDeviceRemoved" =>
    LET d == lastOp.arg
        emits == Positions(log, "emit")
    IN /\ devices[DeviceIdOf(d)] = 0
       /\ Cardinality(emits) = 1
       /\ \A j \in emits : log[j].name = "thing-removed" /\ log[j].a = d
       /\ \E i \in Positions(log, "delete") :
            /\ log[i].name = "devices"
            /\ log[i].a = d
            /\ \A j \in emits : i < j

\* a removal was reported while another device stayed registered
C12_Witness ==
  /\ lastOp.op = "handleDeviceRemoved"
  /\ \E id \in DeviceIds : devices[id] # 0

(***************************************************************************)
(* C13: addAdapter(adapter) with an id that is already in the adapter      *)
(* registry fails: the adapter registered before stays registered under    *)
(* that id and no adapter-added event is published.                        *)
(***************************************************************************)
C13_DuplicateIdRejected ==
  [][(/\ lastOp'.op = "addAdapter"
      /\ AdapterIdOf(lastOp'.arg) \in DictKeys(adapters)
      /\ DictGet(adapters, AdapterIdOf(lastOp'.arg)) # lastOp'.arg) =>
       /\ adapters' = adapters
       /\ Positions(log', "emit") = {}]_vars

(***************************************************************************)
(* C14: after addAdapter(adapter) with a fresh id the registry holds the   *)
(* adapter under adapter.id, exactly one event, adapter-added carrying the *)
(* adapter, was published after the adapter was stored, and the pairing    *)
(* sessions, the futures and the device registry are unchanged.            *)
(***************************************************************************)
C14_AddAdapterFresh ==
  [][(lastOp'.op = "addAdapter" /\ AdapterIdOf(lastOp'.arg) \notin DictKeys(adapters)) =>
       LET a == lastOp'.arg
           emits == Positions(log', "emit")
       IN /\ DictGet(adapters', AdapterIdOf(a)) = a
          /\ \A id \in DictKeys(adapters) : DictGet(adapters', id) = DictGet(adapters, id)
          /\ Cardinality(emits) = 1
          /\ \A j \in emits : log'[j].name = "adapter-added" /\ log'[j].a = a
          /\ \E i \in Positions(log', "store") :
               /\ log'[i].name = "adapters"
               /\ log'[i].a = a
               /\ \A j \in emits : i < j
          /\ UNCHANGED <<devices, deferredAdd, deferredRemove, deferreds>>]_vars

\* a second adapter was registered during an add session
C14_Witness ==
  /\ lastOp.op = "addAdapter"
  /\ Len(adapters) = 2
  /\ adapters[2].obj = lastOp.arg
  /\ deferredAdd # 0
  /\ \E id \in DeviceIds : devices[id] # 0

(***************************************************************************)
(* C20: a session ends only through a device report or an explicit cancel: *)
(* deferredAdd changes from a future only in handleDeviceAdded or          *)
(* cancelAddNewThing, and then to null, deferredRemove only in             *)
(* handleDeviceRemoved or cancelRemoveSomeThing; as long as an add session *)
(* stays, every addNewThing() and removeSomeThing() is rejected.           *)
(***************************************************************************)
C20_SessionEndsOnlyByReportOrCancel ==
  /\ [][(deferredAdd # 0 /\ deferredAdd' # deferredAdd) =>
          /\ lastOp'.op \in {"handleDeviceAdded", "cancelAddNewThing"}
          /\ deferredAdd' = 0]_vars
  /\ [][(deferredRemove # 0 /\ deferredRemove' # deferredRemove) =>
          /\ lastOp'.op \in {"handleDeviceRemoved", "cancelRemoveSomeThing"}
          /\ deferredRemove' = 0]_vars
  /\ [][(RequestStep /\ deferredAdd # 0) =>
          /\ deferreds'[lastOp'.ret].state = "rejected"
          /\ deferredAdd' = deferredAdd
          /\ deferreds'[deferredAdd].state = "pending"]_vars

\* an add session outlived a removal report, a cancelRemoveSomeThing() or an
\* addAdapter()
C20_Witness ==
  /\ lastOp.op \in {"handleDeviceRemoved", "cancelRemoveSomeThing", "addAdapter"}
  /\ deferredAdd # 0
  /\ deferreds[deferredAdd].state = "pending"
  /\ Len(deferreds) = 2
  /\ deferreds[2].state = "rejected"

(***************************************************************************)
(* C15: getAdapter(id), getDevice(id) and getThing(id) are pure lookups:   *)
(* they return the registry's entry for the id (the device's thing for     *)
(* getThing) and undefined for an id that is absent, and they change       *)
(* neither registry, no session and no future and publish no event.        *)
(***************************************************************************)
C15_PureLookups ==
  /\ [][lastOp'.op \in {"getAdapter", "getDevice", "getThing"} =>
          /\ UNCHANGED <<adapters, devices, deferredAdd, deferredRemove, deferreds>>
          /\ Positions(log', "emit") = {}]_vars
  /\ [](lastOp.op = "getAdapter" => lastOp.ret = AdapterAt(lastOp.arg))
  /\ [](lastOp.op = "getDevice" => lastOp.ret = DeviceAt(lastOp.arg))
  /\ [](lastOp.op = "getThing" =>
          lastOp.ret = IF DeviceAt(lastOp.arg) = Undefined
                         THEN UndefinedThing
                         ELSE getThing(DeviceAt(lastOp.arg)))

\* getThing was called for the id of a removed device during a session
C15_Witness ==
  /\ lastOp.op = "getThing"
  /\ lastOp.ret = UndefinedThing
  /\ \E id \in DeviceIds : devices[id] # 0
  /\ deferredRemove = 0
  /\ \E i \in DOMAIN deferreds :
       deferreds[i].state = "resolved" /\ deferreds[i].value.dev = lastOp.arg

(***************************************************************************)
(* C16: getProperty and setProperty addressed to a device id that is not   *)
(* in the registry change no state, and what they return tells the failed  *)
(* lookup from a successful call: they return the failure value exactly    *)
(* when the registry has no device under the id.                           *)
(***************************************************************************)
C16_FailedLookupSignalled ==
  /\ [][lastOp'.op \in {"getProperty", "setProperty"} =>
          UNCHANGED <<adapters, devices, deferredAdd, deferredRemove, deferreds>>]_vars
  /\ [](lastOp.op \in {"getProperty", "setProperty"} =>
          (lastOp.ret = Undefined <=> DeviceAt(lastOp.arg) = Undefined))

(***************************************************************************)
(* The ZWaveAdapter.                                                       *)
(***************************************************************************)
\* a step in which method of the ZWaveAdapter is called, by its user or by
\* the manager
ZWMethodCalled(method) ==
  \/ lastOp'.op = method
  \/ CallsOf(log', method, ZWaveAdapterObj) > 0

\* C17: cancelPairing() of the ZWaveAdapter called while the controller is
\* not in pairing mode (idle, or unpairing) issues no controller command and
\* leaves the controller's mode as it was, so an unpairing in progress goes
\* on; and the same for cancelUnpairing() called while the controller is not
\* in unpairing mode.
C17_CancelIsNoOpWhenNotActive ==
  [][/\ (ZWMethodCalled("cancelPairing") /\ zw.mode # "add") =>
          (zw'.cmds = <<>> /\ zw'.mode = zw.mode)
     /\ (ZWMethodCalled("cancelUnpairing") /\ zw.mode # "remove") =>
          (zw'.cmds = <<>> /\ zw'.mode = zw.mode)]_vars

\* the ids under which the ZWaveAdapter is in the adapter registry
ZWaveKeys == {adapters[i].id : i \in {j \in 1..Len(adapters) : adapters[j].obj = ZWaveAdapterObj}}

\* C18: the ZWaveAdapter enters the adapter registry only in a call of
\* driverReady, and under the id 'zwave-<homeId>' of that call, which is
\* then its id; so an adapter whose driver never reported ready (its id is
\* still '???'), whether or not it reported failure, is not in the registry,
\* and the registry has no entry under '???'.
C18_RegisteredOnlyWhenReady ==
  /\ [](ProvisionalId \notin DictKeys(adapters))
  /\ [](zw.id = ProvisionalId => ZWaveAdapterObj \notin Registered)
  /\ [](ZWaveKeys \subseteq {ZWaveIdOf(h) : h \in HomeIds})
  /\ [][ZWaveKeys' # ZWaveKeys =>
          /\ lastOp'.op = "driverReady"
          /\ ZWaveKeys' = ZWaveKeys \cup {ZWaveIdOf(lastOp'.arg)}
          /\ zw'.id = ZWaveIdOf(lastOp'.arg)]_vars

\* C18 witness: driverReady has registered the adapter under 'zwave-<homeId>'
\* after the driver had also reported a failure
C18_Witness ==
  /\ lastOp.op = "driverReady"
  /\ ZWaveKeys = {ZWaveIdOf(lastOp.arg)}
  /\ ~zw.connected

\* C19: every node that a call of nodeReady or scanComplete passes to the
\* manager's handleDeviceAdded (and so stores in the device registry) has
\* received its naming notification: node.named is true.
C19_RegisteredOnlyWhenNamed ==
  lastOp.op \in {"nodeReady", "scanComplete"} =>
    \A i \in Positions(log, "store") : log[i].name = "devices" => log[i].a \in zw.named

(***************************************************************************)
(* Rejection reasons.                                                      *)
(***************************************************************************)
\* the reason strings the manager rejects a future with
RejectionReasons ==
  {"Add already in progress", "Remove already in progress",
   "addNewThing cancelled", "removeSomeThing cancelled"}

\* C21: every rejected future carries a reason that names its cause: a
\* request made while an add session is active is rejected with 'Add already
\* in progress', one made while a remove session is active with 'Remove
\* already in progress', and a cancelled add (remove) session with
\* 'addNewThing cancelled' ('removeSomeThing cancelled').
C21_RejectionReasons ==
  /\ [](\A i \in DOMAIN deferreds :
          deferreds[i].state = "rejected" =>
            /\ deferreds[i].value.tag = "reason"
            /\ deferreds[i].value.reason \in RejectionReasons)
  /\ [][(RequestStep /\ deferredAdd # 0) =>
          deferreds'[lastOp'.ret] = DeferredReject(NewDeferred, "Add already in progress")]_vars
  /\ [][(RequestStep /\ deferredRemove # 0) =>
          deferreds'[lastOp'.ret] = DeferredReject(NewDeferred, "Remove already in progress")]_vars
  /\ [][(lastOp'.op = "cancelAddNewThing" /\ deferredAdd # 0) =>
          /\ deferreds'[deferredAdd].state = "rejected"
          /\ deferreds'[deferredAdd].value = Reason("addNewThing cancelled")]_vars
  /\ [][(lastOp'.op = "cancelRemoveSomeThing" /\ deferredRemove # 0) =>
          /\ deferreds'[deferredRemove].state = "rejected"
          /\ deferreds'[deferredRemove].value = Reason("removeSomeThing cancelled")]_vars

\* C21 witness: a request was rejected during a remove session, and that
\* session has then been cancelled
C21_Witness ==
  /\ lastOp.op = "cancelRemoveSomeThing"
  /\ Len(deferreds) = 2
  /\ deferreds[1].value = Reason("removeSomeThing cancelled")
  /\ deferreds[2].value = Reason("Remove already in progress")

(***************************************************************************)
(* The SmartPlug.                                                          *)
(***************************************************************************)
\* the number of writes (PUT requests) outstanding
WritesOutstanding(p) == p.pending["PUT true"] + p.pending["PUT false"]

\* the number of fetch() calls for request r among the effects l
FetchesOf(l, r) ==
  Cardinality({i \in 1..Len(l) : l[i].k = "fetch" /\ l[i].name = r})

\* the number of fetch() calls among the effects l
Fetches(l) == Cardinality(Positions(l, "fetch"))

\* C22: turnOn() and turnOff() leave 'on' in flight (properties.on = null
\* and neither 'on' nor 'off' shown) with their PUT issued; 'on' leaves the
\* in-flight state only in the callback of a response with status 200 to a
\* write; and while a write is outstanding 'on' is in flight, never shown
\* as confirmed.
C22_InFlightUntilConfirmed ==
  /\ [][lastOp'.op \in {"turnOn", "turnOff"} =>
          /\ plug'.on = "null" /\ plug'.shown = "none"
          /\ WritesOutstanding(plug') = WritesOutstanding(plug) + 1]_vars
  /\ [][(plug.on = "null" /\ plug'.on # "null") =>
          (lastOp'.op = "writeResponded" /\ lastOp'.arg = StatusOK)]_vars
  /\ [](WritesOutstanding(plug) > 0 => (plug.on = "null" /\ plug.shown = "none"))

\* C23: when the response to a write has a status other than 200, or the
\* write fails in transport, and no other write is outstanding, 'on' does
\* not stay in flight (properties.on = null): it is back at a confirmed
\* value.
C23_FailedWriteReverts ==
  [][(/\ \/ lastOp'.op = "writeFailed"
         \/ lastOp'.op = "writeResponded" /\ lastOp'.arg # StatusOK
      /\ WritesOutstanding(plug') = 0) =>
       plug'.on # "null"]_vars

\* C24: a failed read leaves properties.on, properties.power and the view
\* as they were and issues no request; updateStatus() issues one request
\* per property, turnOn() and turnOff() one PUT, and no callback issues a
\* request; a successful read sets the cached value to the value read.
C24_FailedReadHarmless ==
  /\ [][lastOp'.op = "readFailed" =>
          /\ plug'.on = plug.on /\ plug'.power = plug.power
          /\ plug'.shown = plug.shown /\ plug'.label = plug.label
          /\ Outstanding(plug') = Outstanding(plug) - 1]_vars
  /\ [](lastOp.op \in {"SmartPlug", "updateStatus"} =>
          /\ FetchesOf(log, "GET on") = 1 /\ FetchesOf(log, "GET power") = 1
          /\ Fetches(log) = 2)
  /\ [](lastOp.op = "turnOn" => (FetchesOf(log, "PUT true") = 1 /\ Fetches(log) = 1))
  /\ [](lastOp.op = "turnOff" => (FetchesOf(log, "PUT false") = 1 /\ Fetches(log) = 1))
  /\ [](lastOp.op \in {"readFailed", "writeFailed", "writeResponded", "onRead", "powerRead"} =>
          Fetches(log) = 0)
  /\ [][lastOp'.op = "onRead" =>
          plug'.on = (IF lastOp'.arg = 1 THEN "true" ELSE "false")]_vars
  /\ [][lastOp'.op = "powerRead" => plug'.power = lastOp'.arg]_vars

\* C24 witness: a read has failed while 'on' and the power were cached, and
\* the read of the other property is still outstanding
C24_Witness ==
  /\ lastOp.op = "readFailed"
  /\ plug.on = "true"
  /\ plug.power \in PowerValues
  /\ Outstanding(plug) > 0

(***************************************************************************)
(* The loader of the ZWaveAdapter.                                         *)
(***************************************************************************)
\* the calls of findZWavePort's callback in the last loader run
LoaderCallbacks == Positions(log, "callback")

\* the adapters constructed in the last loader run
LoaderConstructs == {i \in Positions(log, "zwave") : log[i].name = "construct"}

\* C25: every loader run calls findZWavePort's callback exactly once and
\* constructs at most one adapter; a run whose scan reported an error, or
\* found no Z-Wave port, calls it with the error, constructs no adapter,
\* registers nothing and raises no exception.
C25_FailedLoaderHarmless ==
  lastOp.op = "loadZWaveAdapters" =>
    /\ Cardinality(LoaderCallbacks) = 1
    /\ Cardinality(LoaderConstructs) <= 1
    /\ Positions(log, "throw") = {}
    /\ (lastOp.arg = 1 \/ \E i \in LoaderCallbacks : log[i].name = "error") =>
         /\ \A i \in LoaderCallbacks : log[i].name = "error"
         /\ LoaderConstructs = {}
         /\ ~zw.constructed
         /\ adapters = <<>>

(***************************************************************************)
(* Device reports and the session of the other kind.                       *)
(***************************************************************************)
\* C26: handleDeviceAdded called with no add session (idle or removing)
\* stores the device and emits thing-added, and does nothing else: it calls
\* no adapter method, settles no future and leaves deferredRemove as it was;
\* handleDeviceRemoved called with no remove session (idle or adding)
\* deletes the device and emits thing-removed, and likewise leaves
\* deferredAdd as it was.
C26_OtherSessionUntouched ==
  /\ [][(lastOp'.op = "handleDeviceAdded" /\ deferredAdd = 0) =>
          /\ devices'[DeviceIdOf(lastOp'.arg)] = lastOp'.arg
          /\ log' = <<Eff("store", "devices", lastOp'.arg, 0),
                      Eff("emit", "thing-added", lastOp'.arg, 0)>>
          /\ deferredRemove' = deferredRemove
          /\ deferredAdd' = 0
          /\ deferreds' = deferreds]_vars
  /\ [][(lastOp'.op = "handleDeviceRemoved" /\ deferredRemove = 0) =>
          /\ devices'[DeviceIdOf(lastOp'.arg)] = 0
          /\ log' = <<Eff("delete", "devices", lastOp'.arg, 0),
                      Eff("emit", "thing-removed", lastOp'.arg, 0)>>
          /\ deferredAdd' = deferredAdd
          /\ deferredRemove' = 0
          /\ deferreds' = deferreds]_vars

\* C26 witness: a device was reported added during a remove session, which
\* is still pending, with an adapter registered
C26_Witness ==
  /\ lastOp.op = "handleDeviceAdded"
  /\ deferredRemove # 0
  /\ deferreds[deferredRemove].state = "pending"
  /\ adapters # <<>>

(***************************************************************************)
(* The adapters of a session.                                              *)
(***************************************************************************)
\* C27: cancelPairing() and cancelUnpairing() are called only on adapters
\* that startPairing() or startUnpairing() was called on when the active
\* session started, also when addAdapter has registered an adapter since;
\* and every adapter in the registry when a session ends was called when
\* that session started.
C27_CancelOnlyToStarted ==
  /\ [][CalledWith(log', "cancelPairing") \cup CalledWith(log', "cancelUnpairing")
          \subseteq fanout]_vars
  /\ [][SessionEnds => Registered \subseteq fanout]_vars

(***************************************************************************)
(* Removal of Z-Wave nodes.                                                *)
(***************************************************************************)
\* the devices that thing-removed is emitted for among the effects l
RemovedIn(l) ==
  {l[i].a : i \in {j \in Positions(l, "emit") : l[j].name = "thing-removed"}}

\* C28: thing-removed is emitted, and a remove session resolved, only for a
\* device that is in the device registry when the call is made, that is,
\* one whose thing-added was emitted with no thing-removed since; this
\* holds for a node removed while it is in nodesBeingAdded and for the
\* controller node.
C28_RemovedOnlyIfRegistered ==
  [][/\ \A d \in RemovedIn(log') : devices[DeviceIdOf(d)] = d
     /\ (deferredRemove # 0 /\ deferreds'[deferredRemove].state = "resolved") =>
          \E d \in DeviceObjs :
            /\ deferreds'[deferredRemove].value = getThing(d)
            /\ devices[DeviceIdOf(d)] = d]_vars

(***************************************************************************)
(* Reports of Z-Wave nodes.                                                *)
(***************************************************************************)
\* the number of times device d is passed to the manager's
\* handleDeviceAdded among the effects l
ReportsOf(l, d) ==
  Cardinality({i \in Positions(l, "store") : l[i].name = "devices" /\ l[i].a = d})

\* C29: a call of the adapter reports a node to the manager at most once,
\* and only a node that is in nodesBeingAdded and is not the controller;
\* a reported node is out of nodesBeingAdded, and node ready, node naming
\* and scan complete notifications never put a node back into it: so until
\* the node is added again it is not reported again.
C29_ReportedOncePerInclusion ==
  /\ [][lastOp'.op \in {"nodeReady", "scanComplete", "nodeNaming", "nodeAdded", "nodeRemoved"} =>
          \A n \in NodeIds :
            /\ ReportsOf(log', n) <= 1
            /\ ReportsOf(log', n) = 1 =>
                 /\ n \in zw.nodesBeingAdded
                 /\ n \notin zw'.nodesBeingAdded
                 /\ n > ControllerNodeId]_vars
  /\ [][lastOp'.op \in {"nodeReady", "scanComplete", "nodeNaming"} =>
          zw'.nodesBeingAdded \subseteq zw.nodesBeingAdded]_vars
  /\ [][lastOp'.op = "scanComplete" => zw'.nodesBeingAdded = {}]_vars

\* C29 witness: a scan completed with a node in the adapter that had been
\* reported before, and did not report it again
C29_Witness ==
  /\ lastOp.op = "scanComplete"
  /\ \E n \in zw.nodes : devices[DeviceIdOf(n)] = n
  /\ Positions(log, "store") = {}

(***************************************************************************)
(* The device registry and the events about it.                            *)
(***************************************************************************)
\* the devices that event is emitted for among the effects l, one entry
\* per emit
EmitsOf(l, event) ==
  SelectSeq(l, LAMBDA e : e.k = "emit" /\ e.name = event)

\* C30: the device registry changes in step with the events: a call of
\* handleDeviceAdded(d) puts d under d's id, replacing any entry, leaves
\* the other ids alone and emits thing-added for d once and no
\* thing-removed; a call of handleDeviceRemoved(d) leaves d's id without an
\* entry, leaves the other ids alone and emits thing-removed for d once and
\* no thing-added; every other call leaves the registry as it was and emits
\* neither.  So the ids with an entry are always the ids whose last such
\* event is a thing-added.
C30_RegistryFollowsEvents ==
  /\ [][lastOp'.op = "handleDeviceAdded" =>
          /\ devices' = [devices EXCEPT ![DeviceIdOf(lastOp'.arg)] = lastOp'.arg]
          /\ EmitsOf(log', "thing-added") = <<Eff("emit", "thing-added", lastOp'.arg, 0)>>
          /\ EmitsOf(log', "thing-removed") = <<>>]_vars
  /\ [][lastOp'.op = "handleDeviceRemoved" =>
          /\ devices' = [devices EXCEPT ![DeviceIdOf(lastOp'.arg)] = 0]
          /\ EmitsOf(log', "thing-removed") = <<Eff("emit", "thing-removed", lastOp'.arg, 0)>>
          /\ EmitsOf(log', "thing-added") = <<>>]_vars
  /\ [][lastOp'.op \notin {"handleDeviceAdded", "handleDeviceRemoved"} =>
          /\ devices' = devices
          /\ EmitsOf(log', "thing-added") = <<>>
          /\ EmitsOf(log', "thing-removed") = <<>>]_vars

\* C30 witness: a device was removed while another stays registered
C30_Witness ==
  /\ lastOp.op = "handleDeviceRemoved"
  /\ devices[DeviceIdOf(lastOp.arg)] = 0
  /\ \E id \in DeviceIds : devices[id] # 0

(***************************************************************************)
(* Shutdown.                                                               *)
(***************************************************************************)
\* C31: unloadAdapters() calls unload() exactly once on every adapter of
\* the registry, the ZWaveAdapter included, and does nothing else: also
\* with a session active it raises no error, leaves deferredAdd,
\* deferredRemove, the adapter registry and the device registry as they
\* were and settles no future; the ZWaveAdapter is disconnected by it.
C31_UnloadLeavesSessions ==
  [][lastOp'.op = "unloadAdapters" =>
       /\ \A a \in AdapterObjs \cup {ZWaveAdapterObj} :
            CallsOf(log', "unload", a) = IF a \in Registered THEN 1 ELSE 0
       /\ Len(log') = Cardinality(Registered)
       /\ Positions(log', "throw") = {}
       /\ adapters' = adapters
       /\ devices' = devices
       /\ deferredAdd' = deferredAdd
       /\ deferredRemove' = deferredRemove
       /\ deferreds' = deferreds
       /\ ZWaveAdapterObj \in Registered => ~zw'.connected]_vars

\* C31 witness: unloadAdapters() was called during an add session with a
\* plain adapter and the ZWaveAdapter registered and a device in the
\* device registry, and the session's future is still pending
C31_Witness ==
  /\ lastOp.op = "unloadAdapters"
  /\ deferredAdd # 0
  /\ deferreds[deferredAdd].state = "pending"
  /\ ZWaveAdapterObj \in Registered
  /\ Cardinality(Registered) >= 2
  /\ \E id \in DeviceIds : devices[id] # 0
  /\ ~zw.connected

(***************************************************************************)
(* Writes of the SmartPlug that overlap.                                   *)
(***************************************************************************)
\* C32: when the response with status 200 to the last outstanding write
\* arrives, and every write issued since writes were last quiet got a
\* response with status 200, properties.on is the value of the write
\* issued last, whatever the order the responses arrived in.
C32_LastWriteWins ==
  [][(/\ lastOp'.op = "writeResponded"
      /\ lastOp'.arg = StatusOK
      /\ plug'.clean
      /\ WritesOutstanding(plug') = 0) =>
       plug'.on = plug'.lastWrite]_vars

=============================================================================
